---- MODULE Spec2Model ----
(***************************************************************************)
(* Document-structure extraction of elt_llm_ingest: the regulatory-PDF     *)
(* preprocessor (page noise stripper and glossary extractor) and the       *)
(* LeanIX diagram extractor with its section composer.                     *)
(*                                                                         *)
(* Text is a sequence of characters; a character is a one-character        *)
(* string.  A page is the sequence of the lines of its extracted text      *)
(* (raw.split("\n")).                                                      *)
(***************************************************************************)
EXTENDS Integers, Sequences, FiniteSets, TLC

VARIABLES
    pc,                \* position of the run: of RegulatoryPDFPreprocessor.preprocess,
                       \* or of the use of a LeanIXExtractor
    pages,             \* reader.pages read by Pass 1 so far, in order
    current_section,   \* Pass 1: the tracked section title
    clean_sections,    \* Pass 1: the lines of the reconstructed document
    def_sections,      \* self.def_sections: the explicit (page_start, page_end) ranges
    def_density_threshold, \* self.def_density_threshold
    section_idx,       \* Pass 2: how many ranges of def_sections were scanned
    explicit_store,    \* Pass 2: term_lower -> (canonical_term, defn), in insertion order
    detected_store,    \* Pass 2: the same, for the auto-detected pages
    merged,            \* Pass 2: the (term, defn, source) triples
    xml,               \* the elements of the diagram, in document order
    groups,            \* LeanIXExtractor.groups: group_id -> group_label, in insertion order
    assets,            \* LeanIXExtractor.assets: id -> LeanIXAsset, in insertion order
    relationships,     \* LeanIXExtractor.relationships
    sections,          \* what to_section_files returned last: section_key -> content
    composed,          \* how many times to_section_files was called
    output_format,     \* LeanIXPreprocessor.output_format
    collection_prefix, \* LeanIXPreprocessor.collection_prefix; <<>> is None
    result,            \* the PreprocessorResult of LeanIXPreprocessor.preprocess
    xml_file,          \* the diagram file: "ok", "malformed" or "missing"
    raised,            \* the exception that left parse_xml(), "None" if none did
    batch_configs,     \* ingest: the configurations the batch file lists, each by how
                       \* its own ingest call ends: "ok", "error" or "raise"
    attempted,         \* ingest: the listed configurations ingest was called for, in order
    failed,            \* ingest: the failure count of the batch loop
    exit_code,         \* ingest: what the call on the batch file returned; -1 before
    all_lines,         \* Pattern B: the stripped non-header lines of the page range
    line_idx,          \* Pattern B: the lines of all_lines the loop has taken
    dash_term,         \* Pattern B: current_term, the open term; <<>> is None
    dash_defn,         \* Pattern B: current_defn, the parts of the definition of the open term
    dash_collects,     \* Pattern B: the calls of _collect, as term and definition
    file_at,           \* run_ingestion: where each configured file is: at its configured
                       \* path, under RAG_DOCS_DIR only, or nowhere
    version,           \* run_ingestion: the content each configured file has now
    file_hashes,       \* the file_hashes collection: path -> recorded content, 0 if none
    indexed,           \* the (file, content) pairs a build_index call has indexed
    rebuild,           \* ingest_config.rebuild of the run
    force,             \* ingest_config.force of the run
    files_to_process,  \* load_documents: the paths handed to the reader
    skipped,           \* load_documents: the files logged as "Skipping unchanged file"
    documents,         \* load_documents: the (file, content) pairs returned
    outcome            \* how the last run_ingestion call ended; "none" before

stripVars == <<pages, current_section, clean_sections>>
glossVars == <<def_sections, def_density_threshold, section_idx, explicit_store, detected_store, merged>>
extractorVars == <<groups, assets, relationships>>
graphVars == <<xml, extractorVars, sections, composed, output_format, collection_prefix, result,
               xml_file, raised>>
batchVars == <<batch_configs, attempted, failed, exit_code>>
dashVars == <<all_lines, line_idx, dash_term, dash_defn, dash_collects>>
ingestVars == <<file_at, version, file_hashes, indexed, rebuild, force, files_to_process, skipped,
                documents, outcome>>
auxVars == <<dashVars, ingestVars>>
vars == <<pc, stripVars, glossVars, graphVars, batchVars, auxVars>>

\* No PreprocessorResult yet.
NoResult == [returned |-> FALSE]

\* No diagram is being processed.
GraphIdle ==
    /\ xml = <<>>
    /\ groups = <<>>
    /\ assets = <<>>
    /\ relationships = <<>>
    /\ sections = <<>>
    /\ composed = 0
    /\ output_format = "markdown"
    /\ collection_prefix = <<>>
    /\ result = NoResult
    /\ xml_file = "ok"
    /\ raised = "None"

\* No batch is being run.
BatchIdle ==
    /\ batch_configs = <<>>
    /\ attempted = <<>>
    /\ failed = 0
    /\ exit_code = -1

\* No line loop of Pattern B is being run.
DashIdle ==
    /\ all_lines = <<>>
    /\ line_idx = 0
    /\ dash_term = <<>>
    /\ dash_defn = <<>>
    /\ dash_collects = <<>>

\* No ingestion run has been set up.
IngestIdle ==
    /\ file_at = <<>>
    /\ version = <<>>
    /\ file_hashes = <<>>
    /\ indexed = {}
    /\ rebuild = FALSE
    /\ force = FALSE
    /\ files_to_process = {}
    /\ skipped = {}
    /\ documents = {}
    /\ outcome = "none"

AuxIdle == DashIdle /\ IngestIdle

----------------------------------------------------------------------------
(* Characters and the str methods the code uses.                           *)

UpperSeq == <<"A","B","C","D","E","F","G","H","I","J","K","L","M","N","O","P","Q","R","S","T","U","V","W","X","Y","Z">>
LowerSeq == <<"a","b","c","d","e","f","g","h","i","j","k","l","m","n","o","p","q","r","s","t","u","v","w","x","y","z">>
DigitSeq == <<"0","1","2","3","4","5","6","7","8","9">>

Upper == {UpperSeq[i] : i \in 1..26}
Lower == {LowerSeq[i] : i \in 1..26}
Digit == {DigitSeq[i] : i \in 1..10}

\* The en dash of the patterns' [-–], one character.
EnDash == "<en-dash>"
Dashes == {"-", EnDash}

\* What \s matches and str.strip() / str.split() remove.
Whitespace == {" ", "\t", "\n", "\r", "\f"}

RECURSIVE SkipWs(_, _)
SkipWs(s, i) == IF i > Len(s) \/ s[i] \notin Whitespace THEN i ELSE SkipWs(s, i + 1)

RECURSIVE SkipWsBack(_, _)
SkipWsBack(s, i) == IF i < 1 \/ s[i] \notin Whitespace THEN i ELSE SkipWsBack(s, i - 1)

\* str.strip()
Strip(s) == SubSeq(s, SkipWs(s, 1), SkipWsBack(s, Len(s)))

----------------------------------------------------------------------------
(* The line patterns of Pass 1.                                            *)

\* The character class [A-Z\s'/&,\-] of _HEADER_PATTERN.
HeaderClass == Upper \cup Whitespace \cup {"'", "/", "&", ",", "-"}

AllIn(s, from, to, class) == \A i \in from..to : s[i] \in class

RECURSIVE SkipClass(_, _, _)
\* The first position from i on whose character is not in class.
SkipClass(s, i, class) ==
    IF i > Len(s) \/ s[i] \notin class THEN i ELSE SkipClass(s, i + 1, class)

\* _HEADER_PATTERN.match(l) for a line l without "\n": either
\*   \d+ \s* [-–] \s* [A-Z\s'/&,\-]+   or
\*   [A-Z\s'/&,\-]+ \s* [-–] \s* [A-Z\s'/&,\-]+ ,   up to the end of the line.
\* \d+ and \s* take their whole run (what follows a shorter one is neither
\* whitespace nor a dash); \s is in the class, so "\s* class+" is "class+".
HeaderMatch(l) ==
    LET n == Len(l)
        d == SkipClass(l, 1, Digit) - 1
        k == SkipWs(l, d + 1)
    IN  \/ /\ d >= 1
           /\ k < n
           /\ l[k] \in Dashes
           /\ AllIn(l, k + 1, n, HeaderClass)
        \/ \E j \in 2..(n - 1) :
              /\ l[j] \in Dashes
              /\ AllIn(l, 1, j - 1, HeaderClass)
              /\ AllIn(l, j + 1, n, HeaderClass)

W_RETURN == <<"R","E","T","U","R","N"," ","T","O"," ","C","O","N","T","E","N","T","S"," ","P","A","G","E">>
W_DEFINITION == <<"D","E","F","I","N","I","T","I","O","N">>
W_INTERPRETATION == <<"I","N","T","E","R","P","R","E","T","A","T","I","O","N">>
W_CONTENTS == <<"C","O","N","T","E","N","T","S">>
W_SECTION == <<"S","E","C","T","I","O","N">>
W_PAGE == <<"P","A","G","E">>

\* l is a, one or more whitespace characters, b.
TwoWords(l, a, b) ==
    /\ Len(l) > Len(a) + Len(b)
    /\ SubSeq(l, 1, Len(a)) = a
    /\ SubSeq(l, Len(l) - Len(b) + 1, Len(l)) = b
    /\ AllIn(l, Len(a) + 1, Len(l) - Len(b), Whitespace)

\* _NOISE_LINES.match(l) for a stripped line l.
NoiseMatch(l) ==
    \/ l = W_RETURN
    \/ TwoWords(l, W_DEFINITION, W_INTERPRETATION)
    \/ l = W_CONTENTS
    \/ TwoWords(l, W_SECTION, W_PAGE)

\* re.match(r"^\d{1,4}$", l)
PageNumberMatch(l) == Len(l) \in 1..4 /\ AllIn(l, 1, Len(l), Digit)

\* re.match(r"^\d{1,4}\s+\d+\s*[-–]", l): each run is taken whole.
PagePrefixMatch(l) ==
    LET d == SkipClass(l, 1, Digit) - 1
        w == SkipWs(l, d + 1) - 1
        e == SkipClass(l, w + 1, Digit) - 1
        k == SkipWs(l, e + 1)
    IN  /\ d \in 1..4
        /\ w > d
        /\ e > w
        /\ k <= Len(l)
        /\ l[k] \in Dashes

----------------------------------------------------------------------------
(* Pass 1: extract and clean the full text.                                *)

\* Bounds of the Pass 1 input: pages of the document and lines in all of it.
MaxPages == 3
MaxLines == 4

L_H1 == <<"8"," ","-"," ","R">>          \* "8 - R"    a header, first form
L_H2 == <<"R"," ","-"," ","S">>          \* "R - S"    a header, second form
L_Text == <<"a","b">>                    \* "ab"       body text
L_Mixed == <<" ","8"," ","-"," ","R","a">> \* " 8 - Ra"  lowercase: body text
L_Contents == W_CONTENTS                 \* "CONTENTS" noise
L_PageNo == <<"1","2">>                  \* "12"       a page number

StripPool == {L_H1, L_H2, L_Text, L_Mixed, L_Contents, L_PageNo}

SeqsUpTo(S, n) == UNION {[1..k -> S] : k \in 0..n}

RECURSIVE SumLen(_, _)
SumLen(ps, k) == IF k = 0 THEN 0 ELSE Len(ps[k]) + SumLen(ps, k - 1)

\* [line.strip() for line in lines]
StripLines(lines) == [i \in 1..Len(lines) |-> Strip(lines[i])]

\* A stripped line that no "continue" of the line loop drops.
IsContent_KeepsHeaders(stripped) ==
    /\ stripped # <<>>
    /\ ~NoiseMatch(stripped)
    /\ ~PageNumberMatch(stripped)
    /\ ~PagePrefixMatch(stripped)

IsContent(stripped) ==
    /\ stripped # <<>>
    /\ ~HeaderMatch(stripped)
    /\ ~NoiseMatch(stripped)
    /\ ~PageNumberMatch(stripped)
    /\ ~PagePrefixMatch(stripped)

\* content_lines of one page.
ContentLines_Unstripped(lines) == SelectSeq(lines, IsContent)

ContentLines(lines) == SelectSeq(StripLines(lines), IsContent)

\* new_section_header after the line loop of one page: the last header line of
\* the page that differs from current_section; <<>> stands for None.
NewSectionHeader(lines, current) ==
    LET st == StripLines(lines)
        hs == {i \in 1..Len(st) : st[i] # <<>> /\ HeaderMatch(st[i]) /\ st[i] # current}
    IN  IF hs = {} THEN <<>> ELSE st[CHOOSE i \in hs : \A j \in hs : j <= i]

\* Whether the page starts a new section.
StartsSection(new, current) == new # <<>> /\ new # current

MarkerPrefix == <<"#","#"," ">>
Marker(header) == MarkerPrefix \o header

\* current_section after the page.
NextSection_NotTracked(new, current) == current

NextSection(new, current) == IF StartsSection(new, current) THEN new ELSE current

\* clean_sections after the page.
NextCleanSections(out, lines, current) ==
    LET new == NewSectionHeader(lines, current)
        flushed == IF StartsSection(new, current)
                   THEN (IF out # <<>> THEN Append(out, <<>>) ELSE out) \o <<Marker(new)>>
                   ELSE out
    IN  flushed \o ContentLines(lines)

\* One iteration of "for page_idx, page in enumerate(reader.pages)".
ReadPage ==
    /\ pc = "pass1"
    /\ Len(pages) < MaxPages
    /\ \E page \in SeqsUpTo(StripPool, MaxLines - SumLen(pages, Len(pages))) :
          /\ pages' = Append(pages, page)
          /\ clean_sections' = NextCleanSections(clean_sections, page, current_section)
          /\ current_section' = NextSection(NewSectionHeader(page, current_section), current_section)
    /\ UNCHANGED <<pc, glossVars, graphVars, batchVars, auxVars>>

RECURSIVE Join(_, _)
\* sep.join(parts)
Join(parts, sep) ==
    IF parts = <<>> THEN <<>>
    ELSE IF Len(parts) = 1 THEN parts[1]
    ELSE parts[1] \o sep \o Join(Tail(parts), sep)

\* clean_md, the text written to <stem>_clean.md.
CleanMd == Join(clean_sections, <<"\n">>)

\* The pages are exhausted: clean_md is joined and written.
WriteClean ==
    /\ pc = "pass1"
    /\ pc' = "pass2"
    /\ UNCHANGED <<pages, current_section, clean_sections, glossVars, graphVars, batchVars, auxVars>>

\* def_density_threshold of __init__ when the configuration gives none.
DefaultDensityThreshold == 3

StripInit ==
    /\ pc = "pass1"
    /\ pages = <<>>
    /\ current_section = <<>>
    /\ clean_sections = <<>>
    /\ def_sections = <<>>
    /\ def_density_threshold = DefaultDensityThreshold
    /\ section_idx = 0
    /\ explicit_store = <<>>
    /\ detected_store = <<>>
    /\ merged = <<>>
    /\ GraphIdle
    /\ BatchIdle
    /\ AuxIdle

StripNext == ReadPage \/ WriteClean

SpecStrip == StripInit /\ [][StripNext]_vars

----------------------------------------------------------------------------
(* Properties of Pass 1.                                                   *)

IsMarker(l) == Len(l) > Len(MarkerPrefix) /\ SubSeq(l, 1, Len(MarkerPrefix)) = MarkerPrefix

\* The header texts of the section markers of a document, in document order.
MarkerHeaders(out) ==
    LET ms == SelectSeq(out, IsMarker)
    IN  [i \in 1..Len(ms) |-> SubSeq(ms[i], Len(MarkerPrefix) + 1, Len(ms[i]))]

RECURSIVE Flatten(_)
Flatten(ss) == IF ss = <<>> THEN <<>> ELSE Head(ss) \o Flatten(Tail(ss))

\* The header lines of the input, in page order and line order.
InputHeaders(ps) ==
    SelectSeq(Flatten([i \in 1..Len(ps) |-> StripLines(ps[i])]), HeaderMatch)

\* The distinct elements of a sequence, each at its first occurrence.
FirstOccurrences(s) ==
    LET first == {i \in 1..Len(s) : \A j \in 1..(i - 1) : s[j] # s[i]}
    IN  SelectSeq([i \in 1..Len(s) |-> IF i \in first THEN <<s[i]>> ELSE <<>>],
                  LAMBDA x : x # <<>>)

FirstSeenHeaders(ps) ==
    LET f == FirstOccurrences(InputHeaders(ps)) IN [i \in 1..Len(f) |-> f[i][1]]

\* The body lines of a document: neither a marker nor the blank line before one.
BodyLines(out) == SelectSeq(out, LAMBDA l : l # <<>> /\ ~IsMarker(l))

\* C4: no header text appears twice as a section marker of the reconstructed
\* document, even when a header reappears after a different one.
C4_NoHeaderTwiceAsMarker ==
    LET hs == MarkerHeaders(clean_sections)
    IN  \A i, j \in 1..Len(hs) : i # j => hs[i] # hs[j]

\* C5: every distinct header text of the input gets a section marker, and the
\* markers appear in the order in which their header texts are first seen.
C5_MarkerPerHeaderInFirstSeenOrder ==
    pc = "pass2" => MarkerHeaders(clean_sections) = FirstSeenHeaders(pages)

\* C6: no line matching the header pattern is a line of the reconstructed
\* document, so none is emitted as body content.
C6_NoHeaderLineAsBody ==
    \A i \in 1..Len(clean_sections) : ~HeaderMatch(clean_sections[i])

C6_Witness ==
    /\ pc = "pass2"
    /\ Len(InputHeaders(pages)) >= 2
    /\ Len(BodyLines(clean_sections)) >= 2

\* Every page read carries the header h, and no page carries another header.
HeaderOnEveryPage(h) ==
    /\ pages # <<>>
    /\ \A p \in 1..Len(pages) : \E i \in 1..Len(pages[p]) : Strip(pages[p][i]) = h
    /\ \A i \in 1..Len(InputHeaders(pages)) : InputHeaders(pages)[i] = h

\* C7: a header line repeating the tracked section title produces no new
\* marker: no two consecutive section markers are identical, and a header
\* repeated on every page yields one marker followed by the pages' content
\* lines in page order.
C7_RepeatedHeaderOneMarker ==
    LET hs == MarkerHeaders(clean_sections) IN
    /\ \A i \in 1..(Len(hs) - 1) : hs[i] # hs[i + 1]
    /\ \A h \in {L_H1, L_H2} :
          HeaderOnEveryPage(h) =>
              clean_sections = <<Marker(h)>> \o Flatten([p \in 1..Len(pages) |-> ContentLines(pages[p])])

C7_Witness ==
    /\ Len(pages) >= 2
    /\ HeaderOnEveryPage(L_H1)
    /\ \A p \in 1..Len(pages) : ContentLines(pages[p]) # <<>>
    /\ MarkerHeaders(clean_sections) = <<L_H1>>

----------------------------------------------------------------------------
(* Pass 2: the definition patterns.                                        *)

\* The character class [A-Za-z0-9\s/\-'\"] of means_pat, new_def_line and
\* density_pat.
TermClass == Upper \cup Lower \cup Digit \cup Whitespace \cup {"/", "-", "'", "\""}

W_means == <<"m","e","a","n","s">>

\* The longest term tail of means_pat and density_pat ({1,50}?) and of
\* new_def_line ({1,60}?).
MeansTermMax == 50
DashTermMax == 60

\* The bounds of the acceptance guard of _collect.
MinDefnLen == 10
MaxDefnLen == 1500

Min(S) == CHOOSE x \in S : \A y \in S : x <= y
Max(S) == CHOOSE x \in S : \A y \in S : y <= x

HasAt(s, p, w) == p >= 1 /\ p + Len(w) - 1 <= Len(s) /\ SubSeq(s, p, p + Len(w) - 1) = w

\* "\s+means\s" right after position j: the position of the "s" of "means",
\* or 0 when the text does not continue so.
MeansAfter(s, j) ==
    LET w == SkipWs(s, j + 1)
    IN  IF w > j + 1 /\ HasAt(s, w, W_means) /\ w + 5 <= Len(s) /\ s[w + 5] \in Whitespace
        THEN w + 4 ELSE 0

\* "[A-Z][...]{1,50}?\s+means\s" at position i: the end of the (lazy, so
\* shortest) term, or 0 when there is no match at i.
MeansTermEnd(s, i) ==
    IF i < 1 \/ i > Len(s) THEN 0
    ELSE IF s[i] \notin Upper THEN 0
    ELSE LET js == {j \in (i + 1)..(IF i + MeansTermMax < Len(s) THEN i + MeansTermMax ELSE Len(s)) :
                       MeansAfter(s, j) # 0 /\ AllIn(s, i + 1, j, TermClass)}
         IN  IF js = {} THEN 0 ELSE Min(js)

\* The lookahead of means_pat at position p: ";" or the next term.
Terminator(s, p) == p <= Len(s) /\ (s[p] = ";" \/ MeansTermEnd(s, p) # 0)

NoMatch == [ok |-> FALSE, g1 |-> <<>>, g2 |-> <<>>, end |-> 0]

\* means_pat matched at position i: group 1 (lazy), "\s+means\s+" (greedy),
\* group 2 (lazy, at least one character) up to the first terminator.
MeansMatchAt(s, i) ==
    LET j == MeansTermEnd(s, i) IN
    IF j = 0 THEN NoMatch
    ELSE LET m == MeansAfter(s, j)
             v == SkipWs(s, m + 1) - 1
             ts == {p \in (m + 3)..Len(s) : Terminator(s, p)}
             bs == {b \in (m + 2)..(v + 1) : \E p \in ts : p > b}
         IN  IF bs = {} THEN NoMatch
             ELSE LET b == Max(bs)
                      e == Min({p \in ts : p > b}) - 1
                  IN  [ok |-> TRUE, g1 |-> SubSeq(s, i, j), g2 |-> SubSeq(s, b, e), end |-> e]

RECURSIVE MeansFindAll(_, _)
\* means_pat.finditer(s), from position pos on: the matches in order.
MeansFindAll(s, pos) ==
    LET starts == {i \in pos..Len(s) : s[i] \in Upper /\ MeansMatchAt(s, i).ok}
    IN  IF starts = {} THEN <<>>
        ELSE LET r == MeansMatchAt(s, Min(starts))
             IN  <<r>> \o MeansFindAll(s, r.end + 1)

RECURSIVE DensityCount(_, _)
\* len(density_pat.findall(text)), from position pos on.
DensityCount(text, pos) ==
    LET starts == {i \in pos..Len(text) : text[i] \in Upper /\ MeansTermEnd(text, i) # 0}
    IN  IF starts = {} THEN 0
        ELSE LET m == MeansAfter(text, MeansTermEnd(text, Min(starts)))
             IN  1 + DensityCount(text, SkipWs(text, m + 1))

\* new_def_line.match(ln) for a stripped line ln:
\* "^([A-Z][...]{1,60}?)\s{2,}-\s+(.+)".
DashMatch(ln) ==
    LET n == Len(ln)
        \* the dash of "\s{2,}-\s+" after a term ending at j, or 0
        dash(j) == LET k == SkipWs(ln, j + 1)
                   IN  IF k >= j + 3 /\ k < n /\ ln[k] = "-" /\ ln[k + 1] \in Whitespace
                          /\ SkipWs(ln, k + 1) <= n
                       THEN k ELSE 0
        js == {j \in 2..(IF 1 + DashTermMax < n THEN 1 + DashTermMax ELSE n) :
                  dash(j) # 0 /\ AllIn(ln, 2, j, TermClass)}
    IN  IF n = 0 THEN NoMatch
        ELSE IF ln[1] \notin Upper \/ js = {} THEN NoMatch
        ELSE LET j == Min(js)
             IN  [ok |-> TRUE, g1 |-> SubSeq(ln, 1, j),
                  g2 |-> SubSeq(ln, SkipWs(ln, dash(j) + 1), n), end |-> n]

----------------------------------------------------------------------------
(* Pass 2: extract the definitions glossary.                               *)

\* c.lower() of an ASCII character.
LowerChar(c) ==
    IF c \in Upper THEN LowerSeq[CHOOSE i \in 1..26 : UpperSeq[i] = c] ELSE c

\* s.lower()
LowerStr(s) == [i \in 1..Len(s) |-> LowerChar(s[i])]

\* " ".join(s.split())
Collapse(s) ==
    LET keep == SelectSeq([i \in 1..Len(s) |-> i],
                          LAMBDA i : s[i] \notin Whitespace \/ (i > 1 /\ s[i - 1] \notin Whitespace))
        t == [k \in 1..Len(keep) |-> IF s[keep[k]] \in Whitespace THEN " " ELSE s[keep[k]]]
    IN  IF t # <<>> /\ t[Len(t)] = " " THEN SubSeq(t, 1, Len(t) - 1) ELSE t

RECURSIVE SkipSemi(_, _)
SkipSemi(s, i) == IF i > Len(s) \/ s[i] # ";" THEN i ELSE SkipSemi(s, i + 1)

RECURSIVE SkipSemiBack(_, _)
SkipSemiBack(s, i) == IF i < 1 \/ s[i] # ";" THEN i ELSE SkipSemiBack(s, i - 1)

\* s.strip(";")
StripSemi(s) == SubSeq(s, SkipSemi(s, 1), SkipSemiBack(s, Len(s)))

\* The definition text _collect stores.
NormalDefn(defn) == Strip(StripSemi(Collapse(defn)))

HasKey(store, key) == \E i \in 1..Len(store) : store[i].key = key

\* The acceptance guard of _collect.
Rejected_NoGuard(d) == FALSE

Rejected(d) == Len(d) < MinDefnLen \/ Len(d) > MaxDefnLen

\* The key under which _collect files a term.
StoreKey_CaseSensitive(term) == term

StoreKey(term) == LowerStr(term)

\* store after _collect(store, term, defn).
Collect(store, term, defn) ==
    LET t == Collapse(term)
        d == NormalDefn(defn)
    IN  IF Rejected(d) THEN store
        ELSE IF HasKey(store, StoreKey(t)) THEN store
        ELSE Append(store, [key |-> StoreKey(t), term |-> t, defn |-> d])

RECURSIVE CollectAll(_, _, _)
\* _collect over the matches ms[k..] of means_pat.
CollectAll(store, ms, k) ==
    IF k > Len(ms) THEN store
    ELSE CollectAll(Collect(store, ms[k].g1, ms[k].g2), ms, k + 1)

\* The text of a page: its lines as extract_text() gives them.
PageText(page) == Join(page, <<"\n">>)

\* Pattern A's "joined": per page the lines that are no header, joined by " ".
JoinedText(ps, idxs) ==
    Join([k \in 1..Len(idxs) |->
             Join(SelectSeq(ps[idxs[k] + 1], LAMBDA l : ~HeaderMatch(Strip(l))), <<" ">>)],
         <<" ">>)

\* Pattern B's all_lines: the stripped lines that are neither empty nor a header.
AllLines(ps, idxs) ==
    Flatten([k \in 1..Len(idxs) |->
                SelectSeq(StripLines(ps[idxs[k] + 1]), LAMBDA l : l # <<>> /\ ~HeaderMatch(l))])

RECURSIVE PatternB(_, _, _, _, _)
\* The accumulator loop of Pattern B from line k on; current_term <<>> is None.
PatternB(store, lines, k, current_term, current_defn) ==
    IF k > Len(lines)
    THEN IF current_term # <<>> THEN Collect(store, current_term, Join(current_defn, <<" ">>))
         ELSE store
    ELSE LET m == DashMatch(lines[k]) IN
         IF m.ok
         THEN PatternB(IF current_term # <<>>
                       THEN Collect(store, current_term, Join(current_defn, <<" ">>))
                       ELSE store,
                       lines, k + 1, Strip(m.g1), <<Strip(m.g2)>>)
         ELSE IF current_term # <<>>
         THEN PatternB(store, lines, k + 1, current_term, Append(current_defn, lines[k]))
         ELSE PatternB(store, lines, k + 1, current_term, current_defn)

\* store after _extract_page_range(page_indices, store).
ExtractPageRange(ps, idxs, store) ==
    LET afterA == CollectAll(store, MeansFindAll(JoinedText(ps, idxs), 1), 1)
    IN  PatternB(afterA, AllLines(ps, idxs), 1, <<>>, <<>>)

\* Bounds of the Pass 2 input: pages of the document, explicit ranges in
\* def_sections, and the density threshold.
MaxGlossPages == 2
MaxRanges == 2
MaxThreshold == 2

G_Club == <<"C","l","u","b"," ","m","e","a","n","s"," ","a","n","y"," ","c","l","u","b"," ","o","k",";">>
G_Fee == <<"F","e","e"," ","m","e","a","n","s"," ","m","o","n","e","y",";">>
G_CLUB == <<"C","L","U","B"," ","m","e","a","n","s"," ","t","h","e"," ","b","i","g"," ","c","l","u","b",";">>
G_Cup == <<"C","u","p"," ","m","e","a","n","s"," ","a"," ","k","n","o","c","k","o","u","t",";">>
G_Team == <<"T","e","a","m"," "," ","-"," ","e","l","e","v","e","n"," ","p","l","a","y","e","r","s">>
G_Cont == <<"o","n"," ","t","h","e"," ","p","i","t","c","h",".">>
G_Big == <<"B","i","g"," "," ","-"," ">> \o [i \in 1..(MaxDefnLen + 1) |-> "x"]

\* The pages a document is made of: two pages dense in "means" definitions
\* (one spelling a term of the other in capitals), a page with a dash
\* definition wrapped over two lines, and a page with a header line, a
\* definition one character too long.
GlossPages == {
    <<G_Club, G_Fee>>,
    <<G_CLUB, G_Cup>>,
    <<G_Team, G_Cont>>,
    <<L_H1, G_Big>> }

\* The explicit ranges def_sections is made of: the first page, and the
\* pages after it up to an end beyond the document.
RangePool == {<<0, 1>>, <<1, 9>>}

\* range(a, b)
Range(a, b) == [k \in 1..(IF b > a THEN b - a ELSE 0) |-> a + k - 1]

\* auto_pages: the indices of the pages whose density meets the threshold.
AutoPages(ps, threshold) ==
    SelectSeq(Range(0, Len(ps)), LAMBDA i : DensityCount(PageText(ps[i + 1]), 1) >= threshold)

\* "if self.def_density_threshold > 0": the auto-detect block is entered.
AutoEnabled_Always(threshold) == TRUE

AutoEnabled(threshold) == threshold > 0

\* The auto-detect block: every page is scored, the dense ones are extracted.
AutoDetect ==
    /\ pc = "pass2"
    /\ detected_store' =
          IF AutoEnabled(def_density_threshold) /\ AutoPages(pages, def_density_threshold) # <<>>
          THEN ExtractPageRange(pages, AutoPages(pages, def_density_threshold), detected_store)
          ELSE detected_store
    /\ pc' = "explicit"
    /\ UNCHANGED <<stripVars, def_sections, def_density_threshold, section_idx, explicit_store, merged, graphVars, batchVars, auxVars>>

\* One iteration of "for page_start, page_end in self.def_sections".
ScanExplicit ==
    /\ pc = "explicit"
    /\ section_idx < Len(def_sections)
    /\ LET r == def_sections[section_idx + 1]
           total_pages == Len(pages)
           page_indices == Range(IF r[1] < total_pages THEN r[1] ELSE total_pages,
                                 IF r[2] < total_pages THEN r[2] ELSE total_pages)
       IN  explicit_store' = ExtractPageRange(pages, page_indices, explicit_store)
    /\ section_idx' = section_idx + 1
    /\ UNCHANGED <<pc, stripVars, def_sections, def_density_threshold, detected_store, merged, graphVars, batchVars, auxVars>>

\* The source tag of a term of the explicit store.
ExplicitTag_Always(inDetected) == "explicit"

ExplicitTag(inDetected) == IF inDetected THEN "both" ELSE "explicit"

\* merged, from the two stores.
Merged(explicit, detected) ==
    [i \in 1..Len(explicit) |->
        [term |-> explicit[i].term, defn |-> explicit[i].defn,
         source |-> ExplicitTag(HasKey(detected, explicit[i].key))]]
    \o LET only == SelectSeq(detected, LAMBDA e : ~HasKey(explicit, e.key))
       IN  [i \in 1..Len(only) |->
               [term |-> only[i].term, defn |-> only[i].defn, source |-> "detected"]]

\* The ranges are exhausted: the stores are merged with confidence tagging.
Merge ==
    /\ pc = "explicit"
    /\ section_idx = Len(def_sections)
    /\ merged' = Merged(explicit_store, detected_store)
    /\ pc' = "done"
    /\ UNCHANGED <<stripVars, def_sections, def_density_threshold, section_idx, explicit_store, detected_store, graphVars, batchVars, auxVars>>

RECURSIVE StripDoc(_, _)
\* Pass 1 over the first k pages: the tracked title and the document lines.
StripDoc(ps, k) ==
    IF k = 0 THEN [current |-> <<>>, out |-> <<>>]
    ELSE LET before == StripDoc(ps, k - 1)
         IN  [current |-> NextSection(NewSectionHeader(ps[k], before.current), before.current),
              out |-> NextCleanSections(before.out, ps[k], before.current)]

\* Pass 2 starts where Pass 1 ended.
GlossInit ==
    /\ pc = "pass2"
    /\ pages \in SeqsUpTo(GlossPages, MaxGlossPages)
    /\ current_section = StripDoc(pages, Len(pages)).current
    /\ clean_sections = StripDoc(pages, Len(pages)).out
    /\ def_sections \in SeqsUpTo(RangePool, MaxRanges)
    /\ def_density_threshold \in 0..MaxThreshold
    /\ section_idx = 0
    /\ explicit_store = <<>>
    /\ detected_store = <<>>
    /\ merged = <<>>
    /\ GraphIdle
    /\ BatchIdle
    /\ AuxIdle

GlossNext == AutoDetect \/ ScanExplicit \/ Merge

SpecGloss == GlossInit /\ [][GlossNext]_vars

\* ---------------------------------------------------------------------
\* Properties of Pass 2
\* ---------------------------------------------------------------------

\* The keys of a store.
Keys(store) == {store[i].key : i \in 1..Len(store)}

\* The terms of merged, compared without regard to case.
MergedKeys == {LowerStr(merged[i].term) : i \in 1..Len(merged)}

T_Club == <<"C","l","u","b">>
T_CLUB == <<"C","L","U","B">>
T_Fee == <<"F","e","e">>

HasTerm(store, term) == \E i \in 1..Len(store) : store[i].term = term

\* C2: whatever the pages, the explicit ranges and the density threshold,
\* the merged definition list never holds two entries whose terms are equal
\* when compared case-insensitively.
C2_NoTwoEntriesSameTermIgnoringCase ==
    \A i, j \in 1..Len(merged) :
        LowerStr(merged[i].term) = LowerStr(merged[j].term) => i = j

\* A finished run in which the explicit pass met the spelling "CLUB" and
\* the detected pass the spelling "Club".
C2_Witness ==
    /\ pc = "done"
    /\ HasTerm(explicit_store, T_CLUB)
    /\ HasTerm(detected_store, T_Club)
    /\ \E i \in 1..Len(merged) : LowerStr(merged[i].term) = LowerStr(T_Club)

\* C3: in the merged glossary a term is tagged "both" exactly when both the
\* explicit and the detected pass collected it, "explicit" exactly when only
\* the explicit pass did, "detected" exactly when only the detected pass did;
\* the terms returned are the union of the two passes' terms, each once.
C3_ConfidenceMergeLaw ==
    pc = "done" =>
        LET E == Keys(explicit_store)
            D == Keys(detected_store)
        IN  /\ \A i \in 1..Len(merged) :
                   LET k == LowerStr(merged[i].term) IN
                   /\ merged[i].source = "both" <=> (k \in E /\ k \in D)
                   /\ merged[i].source = "explicit" <=> (k \in E /\ k \notin D)
                   /\ merged[i].source = "detected" <=> (k \in D /\ k \notin E)
            /\ MergedKeys = E \cup D
            /\ Len(merged) = Cardinality(E \cup D)

\* A finished run whose glossary has a term of both passes next to a term
\* of one pass only.
C3_Witness ==
    /\ pc = "done"
    /\ \E i \in 1..Len(merged) : merged[i].source = "both"
    /\ \E i \in 1..Len(merged) : merged[i].source \in {"explicit", "detected"}

\* C8: every definition held by a store or returned in the merged list has
\* a normalized text of 10 to 1500 characters; a candidate shorter or longer
\* is in no output, whichever pattern or pass met it.
C8_DefinitionLengthWithinGuard ==
    /\ \A i \in 1..Len(explicit_store) :
           Len(explicit_store[i].defn) \in MinDefnLen..MaxDefnLen
    /\ \A i \in 1..Len(detected_store) :
           Len(detected_store[i].defn) \in MinDefnLen..MaxDefnLen
    /\ \A i \in 1..Len(merged) :
           Len(merged[i].defn) \in MinDefnLen..MaxDefnLen

\* A finished run over a page that defines "Club" and, in five characters,
\* "Fee": both passes read the page, "Club" is returned and "Fee" is not.
C8_Witness ==
    /\ pc = "done"
    /\ \E k \in 1..Len(pages) : pages[k] = <<G_Club, G_Fee>>
    /\ HasTerm(explicit_store, T_Club)
    /\ HasTerm(detected_store, T_Club)
    /\ \A i \in 1..Len(merged) : merged[i].term # T_Fee

----------------------------------------------------------------------------
(* The LeanIX diagram extractor: the str methods it uses.                  *)

\* The characters of a label in code point order: "\t", "\n", "\f", "\r" and
\* the printable ASCII characters but the grave accent.  sorted() compares
\* strings by code point.
CodePoints == <<"\t","\n","\f","\r">> \o
    <<" ","!","\"","#","$","%","&","'","(",")","*","+",",","-",".","/","0","1","2","3","4","5","6","7","8","9",":",";","<","=",">","?","@","A","B","C","D","E","F","G","H","I","J","K","L","M","N","O","P","Q","R","S","T","U","V","W","X","Y","Z","[","\\","]","^","_","a","b","c","d","e","f","g","h","i","j","k","l","m","n","o","p","q","r","s","t","u","v","w","x","y","z","{","|","}","~">>

Ord(c) == CHOOSE i \in 1..Len(CodePoints) : CodePoints[i] = c

\* a < b for two strings
StrLess(a, b) ==
    \E k \in 1..(Len(b)) :
        /\ k <= Len(a) + 1
        /\ SubSeq(a, 1, k - 1) = SubSeq(b, 1, k - 1)
        /\ (k = Len(a) + 1 \/ Ord(a[k]) < Ord(b[k]))

RECURSIVE InsertByKey(_, _)
\* x put behind the last item of the sorted list whose key is not greater.
InsertByKey(sorted, x) ==
    IF sorted # <<>> /\ StrLess(x.k, sorted[Len(sorted)].k)
    THEN Append(InsertByKey(SubSeq(sorted, 1, Len(sorted) - 1), x), sorted[Len(sorted)])
    ELSE Append(sorted, x)

RECURSIVE SortByKey(_)
\* sorted(items, key=...) for items [k |-> key, v |-> value]: a stable sort.
SortByKey(items) ==
    IF items = <<>> THEN <<>>
    ELSE InsertByKey(SortByKey(SubSeq(items, 1, Len(items) - 1)), items[Len(items)])

\* sorted(strs)
SortStrs(strs) ==
    LET s == SortByKey([i \in 1..Len(strs) |-> [k |-> strs[i], v |-> strs[i]]])
    IN  [i \in 1..Len(s) |-> s[i].v]

UpperChar(c) ==
    IF c \in Lower THEN UpperSeq[CHOOSE i \in 1..26 : LowerSeq[i] = c] ELSE c

\* s.upper()
UpperStr(s) == [i \in 1..Len(s) |-> UpperChar(s[i])]

\* sub in s
Contains(s, sub) ==
    \E i \in 1..(Len(s) - Len(sub) + 1) : SubSeq(s, i, i + Len(sub) - 1) = sub

RECURSIVE ReplaceFrom(_, _, _, _)
ReplaceFrom(s, i, old, new) ==
    IF i > Len(s) THEN <<>>
    ELSE IF HasAt(s, i, old) THEN new \o ReplaceFrom(s, i + Len(old), old, new)
    ELSE <<s[i]>> \o ReplaceFrom(s, i + 1, old, new)

\* s.replace(old, new), old not empty
Replace(s, old, new) == ReplaceFrom(s, 1, old, new)

RECURSIVE FindChar(_, _, _)
\* The first position from i on that holds c; Len(s) + 1 if there is none.
FindChar(s, i, c) == IF i > Len(s) \/ s[i] = c THEN i ELSE FindChar(s, i + 1, c)

RECURSIVE RemoveTagsFrom(_, _)
\* re.sub(r'<[^>]+>', '', s) from position i on: a tag is "<", one or more
\* characters other than ">", and ">".
RemoveTagsFrom(s, i) ==
    IF i > Len(s) THEN <<>>
    ELSE LET j == FindChar(s, i + 1, ">")
         IN  IF s[i] = "<" /\ j > i + 1 /\ j <= Len(s)
             THEN RemoveTagsFrom(s, j + 1)
             ELSE <<s[i]>> \o RemoveTagsFrom(s, i + 1)

\* clean_label(label)
clean_label(label) ==
    IF label = <<>> THEN <<>>
    ELSE LET t0 == RemoveTagsFrom(label, 1)
             t1 == Replace(t0, <<"&","a","m","p",";">>, <<"&">>)
             t2 == Replace(t1, <<"&","l","t",";">>, <<"<">>)
             t3 == Replace(t2, <<"&","g","t",";">>, <<">">>)
             t4 == Replace(t3, <<"&","n","b","s","p",";">>, <<" ">>)
             t5 == Replace(t4, <<"&","#","1","0",";">>, <<"\n">>)
         IN  Strip(Collapse(t5))

\* extract_relationship_type(style); "None" is None.
extract_relationship_type(style) ==
    IF Contains(style, <<"e","d","g","e","S","t","y","l","e","=","e","n","t","i","t","y","R","e","l","a","t","i","o","n","E","d","g","e","S","t","y","l","e">>) THEN "Entity Relationship"
    ELSE IF Contains(style, <<"e","d","g","e","S","t","y","l","e","=","o","r","t","h","o","g","o","n","a","l","E","d","g","e","S","t","y","l","e">>) THEN "Orthogonal"
    ELSE IF Contains(style, <<"e","d","g","e","S","t","y","l","e","=","e","l","b","o","w","E","d","g","e","S","t","y","l","e">>) THEN "Elbow"
    ELSE "None"

\* The part of a cardinality an arrow of the style stands for; side is
\* "startArrow" or "endArrow" as characters.
ArrowPart(style, side) ==
    IF Contains(style, side \o <<"=","E","R","z","e","r","o","T","o","M","a","n","y">>) THEN <<"0",".",".","*">>
    ELSE IF Contains(style, side \o <<"=","E","R","o","n","e","T","o","M","a","n","y">>) THEN <<"1",".",".","*">>
    ELSE IF Contains(style, side \o <<"=","E","R","o","n","e","T","o","O","n","e">>) THEN <<"1",".",".","1">>
    ELSE IF Contains(style, side \o <<"=","E","R","z","e","r","o","T","o","O","n","e">>) THEN <<"0",".",".","1">>
    ELSE <<>>

\* extract_cardinality(style); <<>> is None.
extract_cardinality(style) ==
    LET start == ArrowPart(style, <<"s","t","a","r","t","A","r","r","o","w">>)
        end == ArrowPart(style, <<"e","n","d","A","r","r","o","w">>)
    IN  IF start = <<>> /\ end = <<>> THEN <<>>
        ELSE start \o <<"-">> \o end

----------------------------------------------------------------------------
(* The diagram and LeanIXExtractor.extract_all.                            *)
(*                                                                         *)
(* An element of the diagram is an mxCell or an object.  Attribute values  *)
(* are strings; <<>> stands for an attribute that is absent.  An object    *)
(* carries the attributes of its mxCell child when it has one (cell).      *)

\* root.iter('mxCell'): the mxCell elements and the mxCell children of the
\* objects, in document order.  The child of an object has no id of its own.
MxCells(doc) ==
    LET cells == SelectSeq(doc, LAMBDA e : e.tag = "mxCell" \/ e.cell)
    IN  [i \in 1..Len(cells) |->
            IF cells[i].tag = "mxCell" THEN cells[i] ELSE [cells[i] EXCEPT !.id = <<>>]]

\* root.iter('object')
Objects(doc) == SelectSeq(doc, LAMBDA e : e.tag = "object")

HasId(d, id) == \E i \in 1..Len(d) : d[i].id = id

\* d[id], for an id d has
Lookup(d, id) == d[CHOOSE i \in 1..Len(d) : d[i].id = id]

\* d[e.id] = e on a dict kept in insertion order
PutById(d, e) ==
    IF HasId(d, e.id)
    THEN [i \in 1..Len(d) |-> IF d[i].id = e.id THEN e ELSE d[i]]
    ELSE Append(d, e)

RECURSIVE PutAll(_, _, _)
PutAll(d, es, k) == IF k > Len(es) THEN d ELSE PutAll(PutById(d, es[k]), es, k + 1)

\* The objects extract_groups accepts as the label of the group group_id.
GroupLabelObjects_AnyType(doc, group_id) ==
    SelectSeq(Objects(doc), LAMBDA o : /\ o.cell
                                       /\ o.parent = group_id
                                       /\ o.label # <<>>)

GroupLabelObjects(doc, group_id) ==
    SelectSeq(Objects(doc), LAMBDA o : /\ o.cell
                                       /\ o.parent = group_id
                                       /\ o.label # <<>>
                                       /\ o.type = "factSheet")

\* self.groups after extract_groups()
extract_groups_LastChild(doc, gs) ==
    LET conts == SelectSeq(MxCells(doc),
                           LAMBDA c : /\ Contains(c.style, <<"g","r","o","u","p">>)
                                      /\ c.vertex
                                      /\ GroupLabelObjects(doc, c.id) # <<>>)
    IN  PutAll(gs,
               [i \in 1..Len(conts) |->
                   [id |-> conts[i].id,
                    label |-> clean_label(GroupLabelObjects(doc, conts[i].id)
                                            [Len(GroupLabelObjects(doc, conts[i].id))].label)]],
               1)

extract_groups(doc, gs) ==
    LET conts == SelectSeq(MxCells(doc),
                           LAMBDA c : /\ Contains(c.style, <<"g","r","o","u","p">>)
                                      /\ c.vertex
                                      /\ GroupLabelObjects(doc, c.id) # <<>>)
    IN  PutAll(gs,
               [i \in 1..Len(conts) |->
                   [id |-> conts[i].id,
                    label |-> clean_label(GroupLabelObjects(doc, conts[i].id)[1].label)]],
               1)

\* parse_asset(obj), for an object it returns an asset for
parse_asset(obj, gs) ==
    [id |-> obj.id,
     label |-> clean_label(obj.label),
     fact_sheet_id |-> obj.factSheetId,
     grouped |-> HasId(gs, obj.parent),
     parent_group |-> IF HasId(gs, obj.parent) THEN Lookup(gs, obj.parent).label ELSE <<>>,
     parent_id |-> obj.parent]

\* self.assets after extract_assets()
extract_assets(doc, gs, as) ==
    LET objs == SelectSeq(Objects(doc),
                          LAMBDA o : o.type = "factSheet" /\ o.id # <<>> /\ o.cell)
    IN  PutAll(as, [i \in 1..Len(objs) |-> parse_asset(objs[i], gs)], 1)

\* parse_relationship returns a relationship for the edge cell, not None.
IsRelationship_AnyEndpoint(mxcell, as) ==
    mxcell.source # <<>> /\ mxcell.target # <<>>

IsRelationship(mxcell, as) ==
    /\ mxcell.source # <<>>
    /\ mxcell.target # <<>>
    /\ HasId(as, mxcell.source)
    /\ HasId(as, mxcell.target)

\* parse_relationship(mxcell), for a cell it returns a relationship for
parse_relationship(mxcell) ==
    [id |-> mxcell.id,
     source_id |-> mxcell.source,
     target_id |-> mxcell.target,
     source_label |-> <<>>,
     target_label |-> <<>>,
     relationship_type |-> extract_relationship_type(mxcell.style),
     cardinality |-> extract_cardinality(mxcell.style)]

\* self.relationships after extract_relationships()
extract_relationships(doc, as, rels) ==
    LET edges == SelectSeq(MxCells(doc), LAMBDA c : c.edge /\ IsRelationship(c, as))
    IN  rels \o [i \in 1..Len(edges) |-> parse_relationship(edges[i])]

\* self.relationships after enrich_relationships()
enrich_relationships(as, rels) ==
    [i \in 1..Len(rels) |->
        [rels[i] EXCEPT
            !.source_label = IF HasId(as, rels[i].source_id)
                             THEN Lookup(as, rels[i].source_id).label ELSE @,
            !.target_label = IF HasId(as, rels[i].target_id)
                             THEN Lookup(as, rels[i].target_id).label ELSE @]]

\* The extractor after extract_all() on the diagram doc.
extract_all(doc, gs, as, rels) ==
    LET gs1 == extract_groups(doc, gs)
        as1 == extract_assets(doc, gs1, as)
        rels1 == extract_relationships(doc, as1, rels)
    IN  [groups |-> gs1, assets |-> as1, relationships |-> enrich_relationships(as1, rels1)]

----------------------------------------------------------------------------
(* The section composer: LeanIXExtractor.to_section_files.                 *)
(*                                                                         *)
(* Content is a sequence of pieces of text: a fixed piece of a template is *)
(* one string, a label is spelled by its characters.  "<em-dash>" and      *)
(* "<arrow>" stand for the two characters of the templates outside ASCII.  *)

S_Uncategorized == <<"U","n","c","a","t","e","g","o","r","i","z","e","d">>

\* self.xml_file.name
XmlFileName == "model.xml"

\* asset.parent_group or "Uncategorized"
GroupOf(a) == IF a.grouped /\ a.parent_group # <<>> THEN a.parent_group ELSE S_Uncategorized

\* assets_by_group[group]
AssetsOf(as, group) == SelectSeq(as, LAMBDA a : GroupOf(a) = group)

\* The items of s without repetition, in the order of their first occurrence:
\* the keys of a dict filled from s.
Distinct(s) ==
    LET idx == SelectSeq([i \in 1..Len(s) |-> i], LAMBDA i : \A j \in 1..(i - 1) : s[j] # s[i])
    IN  [k \in 1..Len(idx) |-> s[idx[k]]]

\* domain_names: the sorted keys of assets_by_group once "Uncategorized" is popped.
DomainNames(as) ==
    SortStrs(SelectSeq(Distinct([i \in 1..Len(as) |-> GroupOf(as[i])]),
                       LAMBDA g : g # S_Uncategorized))

Labels(as) == [i \in 1..Len(as) |-> as[i].label]

\* [a.label for a in group_assets if a.label.upper() != group_name.upper()]
Members_WithSelf(group_assets, group_name) == Labels(group_assets)

Members(group_assets, group_name) ==
    SelectSeq(Labels(group_assets), LAMBDA l : UpperStr(l) # UpperStr(group_name))

\* sorted(group_assets, key=lambda a: a.label)
SortByLabel(group_assets) ==
    LET s == SortByKey([i \in 1..Len(group_assets) |->
                           [k |-> group_assets[i].label, v |-> group_assets[i]]])
    IN  [i \in 1..Len(s) |-> s[i].v]

\* sorted(rels, key=lambda r: r.target_label or "")
SortByTarget(rels) ==
    LET s == SortByKey([i \in 1..Len(rels) |-> [k |-> rels[i].target_label, v |-> rels[i]]])
    IN  [i \in 1..Len(s) |-> s[i].v]

\* The six pairs _describe_cardinality has a phrase for.
CardinalityPhrases == <<
    [c |-> <<"0",".",".","*","-","0",".",".","*">>, phrase |-> "relates to (zero or more to zero or more)"],
    [c |-> <<"1",".",".","*","-","0",".",".","*">>, phrase |-> "relates to (one or more to zero or more)"],
    [c |-> <<"0",".",".","*","-","1",".",".","*">>, phrase |-> "relates to (zero or more to one or more)"],
    [c |-> <<"1",".",".","1","-","0",".",".","*">>, phrase |-> "relates to (exactly one to zero or more)"],
    [c |-> <<"0",".",".","*","-","1",".",".","1">>, phrase |-> "relates to (zero or more to exactly one)"],
    [c |-> <<"1",".",".","1","-","1",".",".","1">>, phrase |-> "relates to (exactly one to exactly one)"] >>

\* _describe_cardinality(cardinality)
describe_cardinality_NoRawPair(cardinality) ==
    IF \E i \in 1..Len(CardinalityPhrases) : CardinalityPhrases[i].c = cardinality
    THEN <<CardinalityPhrases[CHOOSE i \in 1..Len(CardinalityPhrases) :
                                  CardinalityPhrases[i].c = cardinality].phrase>>
    ELSE <<"relates to">>

describe_cardinality(cardinality) ==
    IF \E i \in 1..Len(CardinalityPhrases) : CardinalityPhrases[i].c = cardinality
    THEN <<CardinalityPhrases[CHOOSE i \in 1..Len(CardinalityPhrases) :
                                  CardinalityPhrases[i].c = cardinality].phrase>>
    ELSE IF cardinality # <<>> THEN <<"relates to (">> \o cardinality \o <<")">>
    ELSE <<"relates to">>

RECURSIVE CollapseRuns(_, _)
\* re.sub(r'[^a-z0-9]+', '_', key) from position i on
CollapseRuns(key, i) ==
    IF i > Len(key) THEN <<>>
    ELSE IF key[i] \in Lower \cup Digit THEN <<key[i]>> \o CollapseRuns(key, i + 1)
    ELSE IF i > 1 /\ key[i - 1] \notin Lower \cup Digit THEN CollapseRuns(key, i + 1)
    ELSE <<"_">> \o CollapseRuns(key, i + 1)

\* key.strip('_')
StripUnderscore(key) ==
    LET isU(i) == key[i] = "_"
        first == CHOOSE i \in 1..(Len(key) + 1) :
                    /\ (i <= Len(key) => ~isU(i))
                    /\ \A j \in 1..(i - 1) : isU(j)
        last == CHOOSE i \in 0..Len(key) :
                    /\ (i >= 1 => ~isU(i))
                    /\ \A j \in (i + 1)..Len(key) : isU(j)
    IN  SubSeq(key, first, last)

\* _sanitize_section_key(name)
sanitize_section_key(name) == StripUnderscore(CollapseRuns(LowerStr(name), 1))

\* sections[key] = content on a dict kept in insertion order
PutSection(secs, key, content) ==
    IF \E i \in 1..Len(secs) : secs[i].key = key
    THEN [i \in 1..Len(secs) |-> IF secs[i].key = key THEN [key |-> key, content |-> content]
                                 ELSE secs[i]]
    ELSE Append(secs, [key |-> key, content |-> content])

\* sections["overview"]
OverviewContent(as, rels) ==
    LET domain_names == DomainNames(as)
    IN  <<"# FA Enterprise Conceptual Data Model <em-dash> Overview\n\n",
          "The FA Enterprise Conceptual Data Model (source: ", XmlFileName,
          ") contains ", ToString(Len(as)), " DataObject entities organised into ",
          ToString(Len(domain_names)), " named domain groups: ">>
        \o Join(domain_names, <<", ">>)
        \o <<". These domains are connected through ", ToString(Len(rels)),
             " entity relationships.\n\n">>
        \o Flatten([i \in 1..Len(domain_names) |->
              <<"The **">> \o domain_names[i] \o <<"** domain contains ",
                ToString(Len(Members(AssetsOf(as, domain_names[i]), domain_names[i]))),
                " entities.\n\n">>])

\* The relationships a domain section inlines.
DomainRels(rels, group_name) ==
    SelectSeq(rels, LAMBDA r : r.source_label = group_name \/ r.target_label = group_name)

\* rel.source_label or rel.source_id
SourceOf(rel) == IF rel.source_label # <<>> THEN rel.source_label ELSE rel.source_id

\* rel.target_label or rel.target_id
TargetOf(rel) == IF rel.target_label # <<>> THEN rel.target_label ELSE rel.target_id

\* The content of the section of the domain group_name.
DomainContent(as, rels, group_name) ==
    LET members == Members(SortByLabel(AssetsOf(as, group_name)), group_name)
        domain_rels == SortByTarget(DomainRels(rels, group_name))
    IN  <<"# ">> \o group_name \o <<" Domain <em-dash> FA Enterprise Conceptual Data Model\n\n",
          "The ">> \o group_name
        \o <<" domain is part of the FA Enterprise Conceptual Data Model. It contains ",
             ToString(Len(members)), " entities.\n\n">>
        \o (IF members # <<>>
            THEN <<"The entities within the ">> \o group_name \o <<" domain are:\n\n">>
                 \o Flatten([i \in 1..Len(members) |-> <<"- **">> \o members[i] \o <<"**\n">>])
                 \o <<"\n">>
            ELSE <<>>)
        \o (IF domain_rels # <<>>
            THEN <<"## ">> \o group_name \o <<" Domain Relationships\n\n">>
                 \o Flatten([i \in 1..Len(domain_rels) |->
                       <<"- **">> \o SourceOf(domain_rels[i]) \o <<"** ">>
                       \o describe_cardinality(domain_rels[i].cardinality)
                       \o <<" **">> \o TargetOf(domain_rels[i]) \o <<"**\n">>])
                 \o <<"\n">>
            ELSE <<>>)

RECURSIVE PutDomains(_, _, _, _, _)
\* The loop "for group_name in domain_names" from the k-th name on.
PutDomains(secs, as, rels, domain_names, k) ==
    IF k > Len(domain_names) THEN secs
    ELSE PutDomains(PutSection(secs, sanitize_section_key(domain_names[k]),
                               DomainContent(as, rels, domain_names[k])),
                    as, rels, domain_names, k + 1)

PartyKeywords == <<
    <<"p","l","a","y","e","r">>, <<"c","l","u","b">>, <<"t","e","a","m">>,
    <<"i","n","d","i","v","i","d","u","a","l">>, <<"o","r","g","a","n","i","s","a","t","i","o","n">>,
    <<"e","m","p","l","o","y","e","e">>, <<"c","u","s","t","o","m","e","r">>,
    <<"m","e","m","b","e","r">>, <<"o","f","f","i","c","i","a","l">>,
    <<"l","e","a","r","n","e","r">>, <<"p","r","o","s","p","e","c","t">>,
    <<"s","u","p","p","l","i","e","r">>, <<"c","o","u","n","t","y">>,
    <<"c","h","a","r","i","t","y">>, <<"g","o","v","e","r","n","m","e","n","t">>,
    <<"s","c","h","o","o","l">>, <<"a","u","t","h","o","r","i","t","y">>,
    <<"c","a","n","d","i","d","a","t","e">>, <<"m","e","n","t","o","r">>,
    <<"d","e","v","e","l","o","p","e","r">>, <<"h","o","u","s","e","h","o","l","d">>,
    <<"u","n","i","t">>, <<"s","u","p","p","o","r","t","e","r">>,
    <<"a","t","t","e","n","d","e","e">> >>

ChannelKeywords == <<
    <<"c","h","a","n","n","e","l">>, <<"b","r","o","a","d","c","a","s","t">>,
    <<"s","t","r","e","a","m","i","n","g">>, <<"t","v">>, <<"r","a","d","i","o">>,
    <<"s","m","s">>, <<"e","m","a","i","l">>, <<"m","o","b","i","l","e">>,
    <<"w","e","b">>, <<"p","o","r","t","a","l">>, <<"s","o","c","i","a","l">>,
    <<"p","u","s","h">>, <<"l","i","v","e">>, <<"c","h","a","t">>,
    <<"c","a","l","l"," ","c","e","n","t","r","e">>, <<"c","o","n","c","i","e","r","g","e">>,
    <<"i","n"," ","p","e","r","s","o","n">>, <<"p","o","s">>,
    <<"t","u","r","n","s","t","i","l","e">>, <<"m","e","r","c","h","a","n","d","i","s","e">> >>

ContainsAny(label, keywords) == \E i \in 1..Len(keywords) : Contains(label, keywords[i])

\* The list an uncategorized asset is put on.
Bucket(a) ==
    LET label == LowerStr(a.label)
    IN  IF ContainsAny(label, PartyKeywords) THEN "party"
        ELSE IF ContainsAny(label, ChannelKeywords) THEN "channel"
        ELSE IF Contains(label, <<"a","c","c","o","u","n","t">>) THEN "account"
        ELSE IF \/ Contains(label, <<"a","s","s","e","t">>)
                \/ Contains(label, <<"d","a","t","a">>)
                \/ Contains(label, <<"p","r","o","p","e","r","t","y">>) THEN "asset"
        ELSE "other"

\* One paragraph of the additional entities, nothing for an empty list.
BucketParagraph(uncategorized, bucket, title) ==
    LET labels == Labels(SelectSeq(uncategorized, LAMBDA a : Bucket(a) = bucket))
    IN  IF labels = <<>> THEN <<>>
        ELSE <<title, ToString(Len(labels)), " entities):** ">>
             \o Join(SortStrs(labels), <<", ">>) \o <<".\n\n">>

\* sections["additional_entities"]
AdditionalContent(uncategorized) ==
    <<"# Additional Entities <em-dash> FA Enterprise Conceptual Data Model\n\n",
      "The following entities are defined in the FA Enterprise Conceptual Data Model and include key party, channel, account, and asset entities that form the core of The Football Association's data landscape.\n\n">>
    \o BucketParagraph(uncategorized, "party", "**Party Types (")
    \o BucketParagraph(uncategorized, "channel", "**Channel Types (")
    \o BucketParagraph(uncategorized, "account", "**Account Types (")
    \o BucketParagraph(uncategorized, "asset", "**Asset Types (")
    \o BucketParagraph(uncategorized, "other", "**Other Entities (")

\* The cut of a member list at twelve entities.
MaxListedMembers == 12

\* sorted(a.label for a in self.assets.values()
\*        if a.parent_group == label and a.label.upper() != label.upper())
DomainMembers(as, label) ==
    SortStrs(Labels(SelectSeq(as, LAMBDA a : /\ a.grouped
                                             /\ a.parent_group = label
                                             /\ UpperStr(a.label) # UpperStr(label))))

\* "The **<label>** domain includes entities: ...", nothing for no members.
MembersSentence(as, label) ==
    LET members == DomainMembers(as, label)
    IN  IF members = <<>> THEN <<>>
        ELSE <<"The **">> \o label \o <<"** domain includes entities: ">>
             \o Join(SubSeq(members, 1, IF Len(members) > MaxListedMembers
                                        THEN MaxListedMembers ELSE Len(members)),
                     <<", ">>)
             \o (IF Len(members) > MaxListedMembers THEN <<"...">> ELSE <<>>)
             \o <<".\n\n">>

\* The part of the relationships section about one relationship.
RelationshipContent(as, rel) ==
    <<"## Relationship: ">> \o SourceOf(rel) \o <<" <arrow> ">> \o TargetOf(rel) \o <<"\n\n",
      "**">> \o SourceOf(rel) \o <<"** ">> \o describe_cardinality(rel.cardinality)
    \o <<" **">> \o TargetOf(rel) \o <<"**.\n\n">>
    \o MembersSentence(as, SourceOf(rel))
    \o MembersSentence(as, TargetOf(rel))

\* sections["relationships"]
RelationshipsContent(as, rels) ==
    LET sources == SortStrs(Distinct([i \in 1..Len(rels) |-> SourceOf(rels[i])]))
        ordered == Flatten([k \in 1..Len(sources) |->
                       SortByTarget(SelectSeq(rels, LAMBDA r : SourceOf(r) = sources[k]))])
    IN  <<"# Entity Relationships <em-dash> FA Enterprise Conceptual Data Model\n\n",
          "This document lists all ", ToString(Len(rels)),
          " domain-level entity relationships in the FA Enterprise Conceptual Data Model. Each relationship section is self-contained: it names the source and target domains, states the cardinality, and lists representative entities from each domain so that any retrieved chunk carries full context.\n\n">>
        \o Flatten([i \in 1..Len(ordered) |-> RelationshipContent(as, ordered[i])])

\* to_section_files()
to_section_files(as, rels) ==
    LET s1 == PutSection(<<>>, <<"o","v","e","r","v","i","e","w">>, OverviewContent(as, rels))
        s2 == PutDomains(s1, as, rels, DomainNames(as), 1)
        uncategorized == AssetsOf(as, S_Uncategorized)
        s3 == IF uncategorized # <<>>
              THEN PutSection(s2, <<"a","d","d","i","t","i","o","n","a","l","_","e","n","t","i","t","i","e","s">>, AdditionalContent(uncategorized))
              ELSE s2
    IN  IF rels # <<>>
        THEN PutSection(s3, <<"r","e","l","a","t","i","o","n","s","h","i","p","s">>, RelationshipsContent(as, rels))
        ELSE s3

----------------------------------------------------------------------------
(* LeanIXPreprocessor.preprocess                                           *)

\* The parameters LeanIXExtractor.__init__ takes besides self.
ConstructorParams == {"xml_file"}

\* The keyword arguments preprocess passes to LeanIXExtractor besides the path.
ConstructorKeywords == {"model_name", "org_name"}

\* The call LeanIXExtractor(path, model_name=..., org_name=...) raises TypeError.
ConstructorRaises == ~(ConstructorKeywords \subseteq ConstructorParams)

\* section_dir / f"{section_key}.md"
SectionPath(section_key) == <<"<stem>_sections/">> \o section_key \o <<".md">>

\* save_sections(section_dir): section_key -> file path, in the order of the sections
save_sections(secs) ==
    [i \in 1..Len(secs) |-> [key |-> secs[i].key, file_path |-> SectionPath(secs[i].key)]]

\* d[e.file_path] = e.collection on a dict kept in insertion order
PutRoute(d, e) ==
    IF \E i \in 1..Len(d) : d[i].file_path = e.file_path
    THEN [i \in 1..Len(d) |-> IF d[i].file_path = e.file_path THEN e ELSE d[i]]
    ELSE Append(d, e)

RECURSIVE RouteAll(_, _, _, _)
\* {file_path: f"{prefix}_{section_key}" ...} from the k-th section on
RouteAll(d, file_map, prefix, k) ==
    IF k > Len(file_map) THEN d
    ELSE RouteAll(PutRoute(d, [file_path |-> file_map[k].file_path,
                               collection |-> prefix \o <<"_">> \o file_map[k].key]),
                  file_map, prefix, k + 1)

\* The exception parse_xml() re-raises for the diagram file, "None" if it
\* returns.
parse_xml(file) ==
    IF file = "malformed" THEN "ParseError"
    ELSE IF file = "missing" THEN "FileNotFoundError"
    ELSE "None"

\* The PreprocessorResult of the except branch for the exception e; message
\* is str(e), told apart by the exception it is the text of.
Failure(e) ==
    [returned |-> TRUE, success |-> FALSE, output_files |-> <<>>,
     has_map |-> FALSE, section_collection_map |-> <<>>, message |-> e]

\* The PreprocessorResult of split mode.
SplitResult(secs, prefix) ==
    LET section_file_map == save_sections(secs)
    IN  [returned |-> TRUE, success |-> TRUE,
         output_files |-> [i \in 1..Len(section_file_map) |-> section_file_map[i].file_path],
         has_map |-> prefix # <<>>,
         section_collection_map |->
             IF prefix # <<>> THEN RouteAll(<<>>, section_file_map, prefix, 1) ELSE <<>>,
         message |-> "Split into sections"]

\* The PreprocessorResult of the single-file modes.
SingleResult(format) ==
    [returned |-> TRUE, success |-> TRUE,
     output_files |-> (IF format \in {"markdown", "md", "both"} THEN <<<<"<stem>.md">>>> ELSE <<>>)
                      \o (IF format \in {"json", "both"} THEN <<<<"<stem>.json">>>> ELSE <<>>),
     has_map |-> FALSE, section_collection_map |-> <<>>,
     message |-> "Extracted assets and relationships"]

\* What preprocess returns for the diagram file with the elements doc.
preprocess(doc, file, format, prefix) ==
    IF ConstructorRaises THEN Failure("TypeError")
    ELSE IF parse_xml(file) # "None" THEN Failure(parse_xml(file))
    ELSE LET g == extract_all(doc, <<>>, <<>>, <<>>)
         IN  IF format = "split"
             THEN SplitResult(to_section_files(g.assets, g.relationships), prefix)
             ELSE SingleResult(format)

\* What preprocess_file returns for an enabled LeanIXPreprocessor
\* configuration: the output files of a successful result, else the input file.
preprocess_file(doc, file, format, prefix) ==
    LET r == preprocess(doc, file, format, prefix)
    IN  IF r.success THEN r.output_files ELSE <<<<XmlFileName>>>>

----------------------------------------------------------------------------
(* The diagrams, the actions on a diagram and the specification.           *)

\* Bounds: the elements of a diagram, and the calls of to_section_files.
MaxElements == 4
MaxCompose == 2

Cell(id, style, vertex, edge, parent, source, target) ==
    [tag |-> "mxCell", id |-> id, type |-> "", label |-> <<>>, factSheetId |-> <<>>,
     cell |-> FALSE, style |-> style, vertex |-> vertex, edge |-> edge,
     parent |-> parent, source |-> source, target |-> target]

Object(id, type, label, factSheetId, parent) ==
    [tag |-> "object", id |-> id, type |-> type, label |-> label, factSheetId |-> factSheetId,
     cell |-> TRUE, style |-> <<"r","o","u","n","d","e","d","=","1">>, vertex |-> TRUE, edge |-> FALSE,
     parent |-> parent, source |-> <<>>, target |-> <<>>]

\* A group container, the fact sheet that labels it, a member of the group,
\* a fact sheet outside every group, an edge between two fact sheets, an
\* edge to the container (no fact sheet) and an edge without a target.
X_Group == Cell(<<"g","1">>, <<"g","r","o","u","p",";","c","o","n","t","a","i","n","e","r","=","1">>, TRUE, FALSE, <<"1">>, <<>>, <<>>)
X_Party == Object(<<"p">>, "factSheet", <<"<","b",">","P","A","R","T","Y","<","/","b",">">>, <<"f","s","-","p">>, <<"g","1">>)
X_Club == Object(<<"c">>, "factSheet", <<"C","l","u","b">>, <<"f","s","-","c">>, <<"g","1">>)
X_Fan == Object(<<"f">>, "factSheet", <<"F","a","n"," ","&","a","m","p",";"," ","C","o">>, <<"f","s","-","f">>, <<"1">>)
X_Edge == Cell(<<"e","1">>, <<"e","d","g","e","S","t","y","l","e","=","e","n","t","i","t","y","R","e","l","a","t","i","o","n","E","d","g","e","S","t","y","l","e",";","s","t","a","r","t","A","r","r","o","w","=","E","R","o","n","e","T","o","O","n","e",";","e","n","d","A","r","r","o","w","=","E","R","z","e","r","o","T","o","M","a","n","y">>,
               FALSE, TRUE, <<"1">>, <<"c">>, <<"f">>)
X_Dangling == Cell(<<"e","2">>, <<"e","n","d","A","r","r","o","w","=","E","R","o","n","e","T","o","M","a","n","y">>, FALSE, TRUE, <<"1">>, <<"c">>, <<"g","1">>)
X_NoTarget == Cell(<<"e","3">>, <<"e","n","d","A","r","r","o","w","=","E","R","o","n","e","T","o","M","a","n","y">>, FALSE, TRUE, <<"1">>, <<"f">>, <<>>)

ElementPool == {X_Group, X_Party, X_Club, X_Fan, X_Edge, X_Dangling, X_NoTarget}

\* The diagrams: up to MaxElements distinct elements in any document order.
Diagrams ==
    {d \in SeqsUpTo(ElementPool, MaxElements) :
        \A i, j \in 1..Len(d) : d[i] = d[j] => i = j}

\* Scenario A of the specification. A_PartyBox and A_ProductBox are the two
\* containers with their own text, which the extractor does not read; in
\* ScenarioA_Labeled the first child of each container is the fact sheet
\* that names it, as in the diagrams extract_groups is written for.
S_PARTY == <<"P","A","R","T","Y">>
S_PRODUCT == <<"P","R","O","D","U","C","T">>
S_Club == <<"C","l","u","b">>
S_Membership == <<"M","e","m","b","e","r","s","h","i","p">>
A_PartyBox == [X_Group EXCEPT !.label = S_PARTY]
A_ProductBox == [Cell(<<"g","2">>, X_Group.style, TRUE, FALSE, <<"1">>, <<>>, <<>>) EXCEPT !.label = S_PRODUCT]
A_Product == Object(<<"q">>, "factSheet", S_PRODUCT, <<"f","s","-","q">>, <<"g","2">>)
A_Membership == Object(<<"m">>, "factSheet", S_Membership, <<"f","s","-","m">>, <<"g","2">>)
A_Edge == [X_Edge EXCEPT !.target = <<"m">>]

ScenarioA_Plain == <<A_PartyBox, X_Club, A_ProductBox, A_Membership, A_Edge>>
ScenarioA_Labeled == <<A_PartyBox, X_Party, X_Club, A_ProductBox, A_Product, A_Membership, A_Edge>>
ScenarioA == {ScenarioA_Plain, ScenarioA_Labeled}

\* The arrows of an edge: the four cardinality tokens, and no arrow.
Arrows == {<<>>, <<"E","R","z","e","r","o","T","o","M","a","n","y">>, <<"E","R","o","n","e","T","o","M","a","n","y">>, <<"E","R","o","n","e","T","o","O","n","e">>, <<"E","R","z","e","r","o","T","o","O","n","e">>}

\* An edge from Club to Fan with the start and end arrows given.
EdgeWith(start, end) ==
    [X_Edge EXCEPT !.style =
        (IF start = <<>> THEN <<>> ELSE <<"s","t","a","r","t","A","r","r","o","w","=">> \o start \o <<";">>)
        \o (IF end = <<>> THEN <<>> ELSE <<"e","n","d","A","r","r","o","w","=">> \o end)]

\* One diagram for every pair of arrows.
CardinalityDiagrams == {<<X_Club, X_Fan, EdgeWith(s, e)>> : s, e \in Arrows}

\* A fact sheet with an id and neither a label nor a factSheetId.
X_Blank == Object(<<"b">>, "factSheet", <<>>, <<>>, <<"1">>)

\* Diagrams with a fact sheet that has no label and no factSheetId.
BlankDiagrams == {<<X_Blank>>, <<X_Club, X_Blank>>, <<X_Group, X_Party, X_Blank, X_Fan>>}

\* Fact sheets whose labels hold escaped markup, a twice-escaped ampersand
\* and whitespace to collapse.
X_Escaped == Object(<<"x">>, "factSheet", <<"&","l","t",";","b","&","g","t",";","C","l","u","b">>, <<"f","s","-","x">>, <<"g","1">>)
X_DoubleAmp == Object(<<"y">>, "factSheet", <<"A"," ","&","a","m","p",";","a","m","p",";"," ","B">>, <<"f","s","-","y">>, <<"1">>)
X_Spaced == Object(<<"z">>, "factSheet", <<" ","<","i",">","B","i","g","<","/","i",">","&","n","b","s","p",";"," ","&","#","1","0",";","C","u","p"," ">>, <<"f","s","-","z">>, <<"1">>)

\* Diagrams with such labels, as an entity label and as a group label.
LabelDiagrams == {<<X_Escaped>>, <<X_Group, X_Escaped>>, <<X_DoubleAmp, X_Spaced>>, <<X_Spaced, X_Fan>>}

\* A labeled object that is no fact sheet and a fact sheet without a label,
\* both directly in the container g1.
X_Note == Object(<<"n">>, "shape", <<"N","o","t","e">>, <<>>, <<"g","1">>)
X_BlankChild == Object(<<"u">>, "factSheet", <<>>, <<"f","s","-","u">>, <<"g","1">>)

\* Containers whose first child is not a labeled fact sheet, and containers
\* without any.
GroupDiagrams ==
    { <<X_Group, X_Note, X_Club>>, <<X_Group, X_Note>>, <<X_Group, X_BlankChild, X_Club, X_Party>>,
      <<X_Group, X_BlankChild>>, <<X_Club, X_Note, X_Group, X_Fan>> }

\* A plain box inside the container g1 and a fact sheet inside the box.
X_Box == Cell(<<"k">>, <<"r","o","u","n","d","e","d","=","1">>, TRUE, FALSE, <<"g","1">>, <<>>, <<>>)
X_Nested == Object(<<"d">>, "factSheet", <<"D","e","e","p">>, <<"f","s","-","d">>, <<"k">>)

\* Diagrams with a fact sheet two levels below a group container.
NestedDiagrams ==
    { <<X_Group, X_Party, X_Box, X_Nested>>, <<X_Group, X_Party, X_Club, X_Box, X_Nested, X_Fan>>,
      <<X_Box, X_Nested>> }

\* A fact sheet in g1 labelled like the Group but for the case.
X_PartyLower == Object(<<"r">>, "factSheet", <<"P","a","r","t","y">>, <<"f","s","-","r">>, <<"g","1">>)

\* Groups with several members in an order other than the sorted one.
MemberDiagrams ==
    { <<X_Group, X_Party, X_Escaped, X_Club, X_BlankChild>>, <<X_Group, X_Party, X_PartyLower, X_Club>>,
      <<X_Group, X_Party, X_Nested, X_Club, X_Edge, X_Fan>> }

\* Fact sheets that label their containers "Overview", "Data-Hub" and
\* "Data Hub".
X_Overview == Object(<<"o">>, "factSheet", <<"O","v","e","r","v","i","e","w">>, <<"f","s","-","o">>, <<"g","1">>)
X_DataHub1 == Object(<<"h">>, "factSheet", <<"D","a","t","a","-","H","u","b">>, <<"f","s","-","h">>, <<"g","1">>)
X_DataHub2 == Object(<<"i">>, "factSheet", <<"D","a","t","a"," ","H","u","b">>, <<"f","s","-","i">>, <<"g","2">>)

\* Groups whose names give the key of the overview or the same key twice.
KeyDiagrams ==
    { <<X_Group, X_Overview, X_Club>>, <<X_Group, X_DataHub1, X_Club, A_ProductBox, X_DataHub2, A_Membership>>,
      <<X_Group, X_DataHub1, A_ProductBox, X_DataHub2>> }

Formats == {"split", "markdown", "json", "both"}
Prefixes == {<<>>, <<"f","a">>}

\* parse_xml() and extract_all() on a new LeanIXExtractor; an exception of
\* parse_xml() reaches the caller and extract_all() is not run.
ExtractAll ==
    /\ pc = "start"
    /\ raised' = parse_xml(xml_file)
    /\ LET g == extract_all(xml, groups, assets, relationships)
       IN  IF parse_xml(xml_file) = "None"
           THEN /\ groups' = g.groups
                /\ assets' = g.assets
                /\ relationships' = g.relationships
                /\ pc' = "extracted"
           ELSE /\ UNCHANGED extractorVars
                /\ pc' = "raised"
    /\ UNCHANGED <<stripVars, glossVars, xml, sections, composed, output_format,
                   collection_prefix, result, xml_file, batchVars, auxVars>>

\* What a call of to_section_files leaves in self.relationships.
RelationshipsAfterCompose_Drained(rels) == <<>>

RelationshipsAfterCompose(rels) == rels

\* A call of to_section_files() on the extractor.
Compose ==
    /\ pc = "extracted"
    /\ composed < MaxCompose
    /\ sections' = to_section_files(assets, relationships)
    /\ relationships' = RelationshipsAfterCompose(relationships)
    /\ composed' = composed + 1
    /\ UNCHANGED <<pc, stripVars, glossVars, xml, groups, assets, output_format,
                   collection_prefix, result, xml_file, raised, batchVars, auxVars>>

\* LeanIXPreprocessor(output_format, collection_prefix).preprocess(...) on the diagram.
Preprocess ==
    /\ pc = "start"
    /\ \E format \in Formats, prefix \in Prefixes :
          /\ output_format' = format
          /\ collection_prefix' = prefix
          /\ result' = preprocess(xml, xml_file, format, prefix)
    /\ pc' = "preprocessed"
    /\ UNCHANGED <<stripVars, glossVars, xml, extractorVars, sections, composed, xml_file,
                   raised, batchVars, auxVars>>

GraphInit ==
    /\ pc = "start"
    /\ pages = <<>>
    /\ current_section = <<>>
    /\ clean_sections = <<>>
    /\ def_sections = <<>>
    /\ def_density_threshold = DefaultDensityThreshold
    /\ section_idx = 0
    /\ explicit_store = <<>>
    /\ detected_store = <<>>
    /\ merged = <<>>
    /\ xml_file \in {"ok", "malformed", "missing"}
    /\ xml \in IF xml_file = "ok"
               THEN Diagrams \cup ScenarioA \cup CardinalityDiagrams \cup BlankDiagrams
                    \cup LabelDiagrams \cup GroupDiagrams \cup NestedDiagrams
                    \cup MemberDiagrams \cup KeyDiagrams
               ELSE {<<>>}
    /\ groups = <<>>
    /\ assets = <<>>
    /\ relationships = <<>>
    /\ sections = <<>>
    /\ composed = 0
    /\ output_format = "markdown"
    /\ collection_prefix = <<>>
    /\ result = NoResult
    /\ raised = "None"
    /\ BatchIdle
    /\ AuxIdle

GraphNext == ExtractAll \/ Compose \/ Preprocess

SpecGraph == GraphInit /\ [][GraphNext]_vars

----------------------------------------------------------------------------
(* Properties of the diagram extractor, the composer and the preprocessor. *)

\* The edge cells of the diagram.
EdgeCells == SelectSeq(MxCells(xml), LAMBDA c : c.edge)

\* The edge cell has no source, no target, or an end that is no asset.
IsDanglingEdge(c) ==
    \/ c.source = <<>>
    \/ c.target = <<>>
    \/ ~HasId(assets, c.source)
    \/ ~HasId(assets, c.target)

\* C1: after extract_all both the source_id and the target_id of every
\* relationship are ids of assets, and an edge cell whose source or target is
\* missing or is no asset is not among the relationships.
C1_EdgeEndpointsAreAssets ==
    pc = "extracted" =>
        /\ \A i \in 1..Len(relationships) :
              /\ HasId(assets, relationships[i].source_id)
              /\ HasId(assets, relationships[i].target_id)
        /\ \A k \in 1..Len(EdgeCells) :
              IsDanglingEdge(EdgeCells[k]) =>
                  \A i \in 1..Len(relationships) :
                      \/ relationships[i].id # EdgeCells[k].id
                      \/ relationships[i].source_id # EdgeCells[k].source
                      \/ relationships[i].target_id # EdgeCells[k].target

\* An extracted diagram with an edge between two assets and an edge from an
\* asset to the group container: a relationship was made, none for the latter.
C1_Witness ==
    /\ pc = "extracted"
    /\ \E k \in 1..Len(xml) : xml[k] = X_Dangling
    /\ HasId(assets, X_Dangling.source)
    /\ ~HasId(assets, X_Dangling.target)
    /\ \E i \in 1..Len(relationships) : relationships[i].id = X_Edge.id

ComposedSections ==
    LET g == extract_all(xml, <<>>, <<>>, <<>>)
    IN  to_section_files(g.assets, g.relationships)

\* The entries of the routing map for the file of the section section_key.
RoutesOf(section_key) ==
    {j \in 1..Len(result.section_collection_map) :
        result.section_collection_map[j].file_path = SectionPath(section_key)}

\* C10: in split mode with a routing prefix every composed section has one
\* target collection, "<prefix>_<slug>" with the slug of its section key;
\* without a prefix there is no routing map.
C10_EverySectionRouted ==
    (pc = "preprocessed" /\ output_format = "split") =>
        IF collection_prefix # <<>>
        THEN /\ result.has_map
             /\ \A i \in 1..Len(ComposedSections) :
                   /\ Cardinality(RoutesOf(ComposedSections[i].key)) = 1
                   /\ \A j \in RoutesOf(ComposedSections[i].key) :
                         result.section_collection_map[j].collection =
                             collection_prefix \o <<"_">>
                             \o sanitize_section_key(ComposedSections[i].key)
        ELSE ~result.has_map

\* C11: parse_xml hands a malformed or missing diagram file to its caller as
\* an exception, and preprocess reports that failure, without raising, as a
\* result with success false, no output file and the message of the parse or
\* file error.
C11_ParseFailureReported ==
    /\ pc = "raised" => (xml_file # "ok" /\ raised = parse_xml(xml_file) /\ raised # "None")
    /\ pc = "extracted" => (xml_file = "ok" /\ raised = "None")
    /\ (pc = "preprocessed" /\ xml_file # "ok") =>
          /\ result.returned
          /\ ~result.success
          /\ result.output_files = <<>>
          /\ result.message = parse_xml(xml_file)

\* The generated files of a single-file output format.
GeneratedFiles(format) ==
    IF format = "markdown" THEN <<<<"<stem>.md">>>>
    ELSE IF format = "json" THEN <<<<"<stem>.json">>>>
    ELSE <<<<"<stem>.md">>, <<"<stem>.json">>>>

\* C14: for a well-formed diagram preprocess succeeds and lists exactly the
\* generated files (.md for markdown, .json for json, .md then .json for
\* both), and preprocess_file returns those files, not the input file.
C14_WellFormedDiagramSucceeds ==
    (pc = "preprocessed" /\ xml_file = "ok" /\ output_format \in {"markdown", "json", "both"}) =>
        /\ result.success
        /\ result.output_files = GeneratedFiles(output_format)
        /\ preprocess_file(xml, xml_file, output_format, collection_prefix)
               = GeneratedFiles(output_format)

\* ---------------------------------------------------------------------
\* runner.ingest on a batch configuration
\* ---------------------------------------------------------------------

MaxConfigs == 3

\* The configuration files a batch can list, by what ingest finds: a valid
\* single configuration whose ingestion runs, one whose ingestion raises
\* inside run_ingestion, a file that does not exist, an empty YAML file, a
\* file that is not YAML, and configurations setting both or neither of
\* collection_prefix and collection_name.
ConfigKinds ==
    {"valid", "ingestion_fails", "missing", "empty", "malformed", "both_set", "none_set"}

Returns(code) == [raises |-> FALSE, code |-> code]

Raises == [raises |-> TRUE, code |-> -1]

\* The single-configuration path of ingest, lines 251-310: yaml.safe_load and
\* ingest_data.get are outside any try block, run_ingestion is inside one.
single_config(kind) ==
    IF kind = "malformed" THEN Raises
    ELSE IF kind = "empty" THEN Raises
    ELSE IF kind \in {"both_set", "none_set"} THEN Returns(1)
    ELSE IF kind = "ingestion_fails" THEN Returns(1)
    ELSE Returns(0)

\* ingest on a listed configuration: a missing file returns 1 before the batch
\* check, load_batch_config finds no batch in any other kind (its exception
\* for a malformed file is passed over) and the single path follows.
ingest(kind) ==
    IF kind = "missing" THEN Returns(1) ELSE single_config(kind)

\* One iteration of the batch loop: ingest is called for the next listed
\* configuration. A non-zero return is counted; an exception leaves the loop
\* for the except clause of line 247, which passes on to the single path
\* with the batch file itself, a configuration with neither collection key.
RunConfig ==
    /\ pc = "batch"
    /\ Len(attempted) < Len(batch_configs)
    /\ LET i == Len(attempted) + 1
           r == ingest(batch_configs[i])
       IN  /\ attempted' = Append(attempted, i)
           /\ IF r.raises
              THEN /\ failed' = failed
                   /\ exit_code' = single_config("none_set").code
                   /\ pc' = "batch_done"
              ELSE /\ failed' = IF r.code # 0 THEN failed + 1 ELSE failed
                   /\ UNCHANGED <<pc, exit_code>>
    /\ UNCHANGED <<stripVars, glossVars, graphVars, batch_configs, auxVars>>

\* The end of the batch loop: 1 if a failure was counted, else 0.
FinishBatch ==
    /\ pc = "batch"
    /\ Len(attempted) = Len(batch_configs)
    /\ exit_code' = IF failed > 0 THEN 1 ELSE 0
    /\ pc' = "batch_done"
    /\ UNCHANGED <<stripVars, glossVars, graphVars, batch_configs, attempted, failed, auxVars>>

BatchInit ==
    /\ pc = "batch"
    /\ pages = <<>>
    /\ current_section = <<>>
    /\ clean_sections = <<>>
    /\ def_sections = <<>>
    /\ def_density_threshold = DefaultDensityThreshold
    /\ section_idx = 0
    /\ explicit_store = <<>>
    /\ detected_store = <<>>
    /\ merged = <<>>
    /\ GraphIdle
    /\ batch_configs \in SeqsUpTo(ConfigKinds, MaxConfigs) \ {<<>>}
    /\ attempted = <<>>
    /\ failed = 0
    /\ exit_code = -1
    /\ AuxIdle

BatchNext == RunConfig \/ FinishBatch

SpecBatch == BatchInit /\ [][BatchNext]_vars

\* C12: a batch attempts every listed configuration exactly once, in list
\* order, whether or not earlier ones failed by error return or by
\* exception, and returns 1 exactly when a listed configuration failed.
C12_BatchIsolation ==
    pc = "batch_done" =>
        /\ attempted = [i \in 1..Len(batch_configs) |-> i]
        /\ (exit_code = 1) <=> (\E i \in 1..Len(batch_configs) : batch_configs[i] # "valid")
        /\ exit_code \in {0, 1}

\* The labels of the extracted entities and of the extracted groups.
EntityLabels == {assets[i].label : i \in 1..Len(assets)}

GroupLabels == {groups[i].label : i \in 1..Len(groups)}

\* One relationship, Club to Membership, with the pair 1..1-0..* and its phrase.
OneClubMembershipRelationship ==
    /\ Len(relationships) = 1
    /\ relationships[1].source_label = S_Club
    /\ relationships[1].target_label = S_Membership
    /\ relationships[1].cardinality = <<"1",".",".","1","-","0",".",".","*">>
    /\ describe_cardinality(relationships[1].cardinality)
           = <<"relates to (exactly one to zero or more)">>

\* C13 as stated: Scenario A yields the entities Club and Membership, the
\* groups PARTY and PRODUCT and one relationship rendered as "relates to
\* (exactly one to zero or more)".
C13_ScenarioA_AsStated ==
    (pc = "extracted" /\ xml \in ScenarioA) =>
        /\ EntityLabels = {S_Club, S_Membership}
        /\ GroupLabels = {S_PARTY, S_PRODUCT}
        /\ OneClubMembershipRelationship

\* C13: a group is labelled by its first labeled fact-sheet child, which is
\* an entity too. With the children PARTY, Club and PRODUCT, Membership the
\* groups are PARTY and PRODUCT and the entities all four; with Club and
\* Membership the only children both the groups and the entities are Club
\* and Membership. Either way there is one relationship, with the pair
\* 1..1-0..*, rendered as "relates to (exactly one to zero or more)".
C13_ScenarioA ==
    /\ (pc = "extracted" /\ xml = ScenarioA_Labeled) =>
          /\ EntityLabels = {S_PARTY, S_Club, S_PRODUCT, S_Membership}
          /\ GroupLabels = {S_PARTY, S_PRODUCT}
          /\ OneClubMembershipRelationship
    /\ (pc = "extracted" /\ xml = ScenarioA_Plain) =>
          /\ EntityLabels = {S_Club, S_Membership}
          /\ GroupLabels = {S_Club, S_Membership}
          /\ OneClubMembershipRelationship

C13_Witness ==
    /\ pc = "extracted"
    /\ xml = ScenarioA_Labeled
    /\ Len(groups) = 2
    /\ Len(relationships) = 1

\* The words of the three ends the canonical pairs are made of.
EndWords(end) ==
    IF end = <<"0",".",".","*">> THEN "zero or more"
    ELSE IF end = <<"1",".",".","*">> THEN "one or more"
    ELSE "exactly one"

\* The six canonical pairs, as start and end.
CanonicalPairs ==
    { <<<<"0",".",".","*">>, <<"0",".",".","*">>>>, <<<<"1",".",".","*">>, <<"0",".",".","*">>>>,
      <<<<"0",".",".","*">>, <<"1",".",".","*">>>>, <<<<"1",".",".","1">>, <<"0",".",".","*">>>>,
      <<<<"0",".",".","*">>, <<"1",".",".","1">>>>, <<<<"1",".",".","1">>, <<"1",".",".","1">>>> }

IsCanonical(c) == \E p \in CanonicalPairs : c = p[1] \o <<"-">> \o p[2]

\* The rendering specified for the pair c: the fixed phrase of a canonical
\* pair, the raw pair in brackets for any other pair, nothing for no pair.
ClaimedRendering(c) ==
    IF IsCanonical(c)
    THEN LET p == CHOOSE q \in CanonicalPairs : c = q[1] \o <<"-">> \o q[2]
         IN  <<"relates to (" \o EndWords(p[1]) \o " to " \o EndWords(p[2]) \o ")">>
    ELSE IF c # <<>> THEN <<"relates to (">> \o c \o <<")">>
    ELSE <<"relates to">>

\* C15: the rendering of a cardinality is total: a canonical pair renders as
\* its fixed phrase, any other pair as "relates to (<raw pair>)" and an
\* absent pair as "relates to".
C15_CardinalityRenderingTotal ==
    pc = "extracted" =>
        \A i \in 1..Len(relationships) :
            describe_cardinality(relationships[i].cardinality)
                = ClaimedRendering(relationships[i].cardinality)

C15_Witness ==
    /\ pc = "extracted"
    /\ \E i \in 1..Len(relationships) :
          /\ relationships[i].cardinality = <<"0",".",".","1","-","0",".",".","*">>
          /\ describe_cardinality(relationships[i].cardinality)
                 = <<"relates to (">> \o relationships[i].cardinality \o <<")">>

\* C16: with a density threshold of zero auto-detection is off: the detected
\* pass collects nothing, so every returned definition is tagged "explicit",
\* and without explicit ranges nothing is returned.
C16_ZeroThresholdDisablesAutoDetect ==
    (pc \in {"explicit", "done"} /\ def_density_threshold = 0) =>
        /\ detected_store = <<>>
        /\ \A i \in 1..Len(merged) : merged[i].source = "explicit"
        /\ (pc = "done" /\ def_sections = <<>>) => merged = <<>>

\* A finished run with threshold zero over pages that hold "means"
\* definitions, some of them returned from an explicit range.
C16_Witness ==
    /\ pc = "done"
    /\ def_density_threshold = 0
    /\ merged # <<>>
    /\ \E k \in 1..Len(pages) : DensityCount(PageText(pages[k]), 1) >= 2

\* The stripped lines of the input, in page order and line order.
InputLines(ps) == Flatten([i \in 1..Len(ps) |-> StripLines(ps[i])])

\* The last element of the set S of positions of lines that is before
\* position i, <<>> if there is none.
LastBefore(lines, S, i) ==
    LET before == {j \in S : j < i}
    IN  IF before = {} THEN <<>> ELSE lines[CHOOSE j \in before : \A k \in before : k <= j]

\* For each content line of the input, in order, the header line most
\* recently met before it; <<>> if no header line precedes it.
OpenHeaderOfInput(ps) ==
    LET lines == InputLines(ps)
        body == SelectSeq([i \in 1..Len(lines) |-> i], LAMBDA i : IsContent(lines[i]))
        heads == {j \in 1..Len(lines) : HeaderMatch(lines[j])}
    IN  [k \in 1..Len(body) |-> LastBefore(lines, heads, body[k])]

\* For each content line of the document, in order, the header text of the
\* marker it is under; <<>> if no marker precedes it.
OpenMarkerOfOutput(out) ==
    LET body == SelectSeq([i \in 1..Len(out) |-> i],
                          LAMBDA i : out[i] # <<>> /\ ~IsMarker(out[i]))
        marks == {j \in 1..Len(out) : IsMarker(out[j])}
        heads == [j \in 1..Len(out) |->
                     IF j \in marks THEN SubSeq(out[j], Len(MarkerPrefix) + 1, Len(out[j]))
                     ELSE <<>>]
    IN  [k \in 1..Len(body) |-> LastBefore(heads, marks, body[k])]

\* C17: every content line of the document is under the marker of the
\* header line most recently met before it in the input; content lines met
\* before a header, on the same page too, stay under the section open before.
C17_ContentUnderMostRecentHeader ==
    OpenMarkerOfOutput(clean_sections) = OpenHeaderOfInput(pages)

\* C18: between two section markers of the document there is at least one
\* content line; only the last marker can have no content after it.
C18_NoMarkerWithoutContent ==
    \A i, j \in 1..Len(clean_sections) :
        (i < j /\ IsMarker(clean_sections[i]) /\ IsMarker(clean_sections[j])) =>
            \E k \in (i + 1)..(j - 1) :
                clean_sections[k] # <<>> /\ ~IsMarker(clean_sections[k])

\* The lines specified as removed: empty lines, header-pattern lines, lines
\* of the noise set, numbers of one to four digits and lines starting with
\* such a number, whitespace, digits and a dash.
Removed(l) ==
    \/ l = <<>>
    \/ HeaderMatch(l)
    \/ NoiseMatch(l)
    \/ PageNumberMatch(l)
    \/ PagePrefixMatch(l)

\* C19 as stated: the content lines of the document are the input lines, in
\* page order and line order, without the lines of the five removed classes.
C19_ContentIsInput_AsStated ==
    BodyLines(clean_sections) = SelectSeq(Flatten(pages), LAMBDA l : ~Removed(l))

\* C19: the content lines of the document are the input lines, each
\* stripped of leading and trailing whitespace, in page order and line
\* order, without the stripped lines of the five removed classes.
C19_ContentIsStrippedInput ==
    BodyLines(clean_sections) = SelectSeq(InputLines(pages), LAMBDA l : ~Removed(l))

\* Two pages or more were read, with a line that has whitespace around it,
\* lines of the removed classes and two content lines or more.
C19_Witness ==
    /\ pc = "pass2"
    /\ Len(pages) >= 2
    /\ \E l \in {Flatten(pages)[i] : i \in 1..Len(Flatten(pages))} : ~Removed(l) /\ Strip(l) # l
    /\ \E l \in {Flatten(pages)[i] : i \in 1..Len(Flatten(pages))} : Removed(l)
    /\ Len(BodyLines(clean_sections)) >= 2

\* The text is whitespace-collapsed and has no ";" or period at its end.
IsNormalText(defn) ==
    /\ defn # <<>>
    /\ defn[Len(defn)] \notin {";", "."}
    /\ defn[1] \notin Whitespace
    /\ defn[Len(defn)] \notin Whitespace
    /\ \A i \in 1..(Len(defn) - 1) : ~(defn[i] \in Whitespace /\ defn[i + 1] \in Whitespace)

\* C20: the text of every returned definition is whitespace-collapsed with
\* its trailing ";" or period stripped: it ends with neither, and has no
\* leading, trailing or repeated whitespace.
C20_DefinitionTextNormalised ==
    \A i \in 1..Len(merged) : IsNormalText(merged[i].defn)

\* C21: no extracted entity lacks both a label and an external identifier:
\* a fact sheet with neither is left out of the entities.
C21_NoEntityWithoutLabelAndExternalId ==
    pc = "extracted" =>
        \A i \in 1..Len(assets) : ~(assets[i].label = <<>> /\ assets[i].fact_sheet_id = <<>>)

\* The label holds a markup tag: "<", one or more characters other than ">",
\* and ">".
HasTag(label) ==
    \E i, j \in 1..Len(label) :
        /\ label[i] = "<"
        /\ label[j] = ">"
        /\ j > i + 1
        /\ \A k \in (i + 1)..(j - 1) : label[k] # ">"

EntityStrings ==
    { <<"&","a","m","p",";">>, <<"&","l","t",";">>, <<"&","g","t",";">>,
      <<"&","n","b","s","p",";">>, <<"&","#","1","0",";">> }

\* The label is fully cleaned.
IsCleanLabel(label) ==
    /\ ~HasTag(label)
    /\ \A e \in EntityStrings : ~Contains(label, e)
    /\ label # <<>> => (label[1] \notin Whitespace /\ label[Len(label)] \notin Whitespace)
    /\ \A i \in 1..(Len(label) - 1) : ~(label[i] \in Whitespace /\ label[i + 1] \in Whitespace)
    /\ clean_label(label) = label

\* C22: every entity label and every group label of the extraction is fully
\* cleaned: it holds no markup tag, none of the five entity strings and no
\* leading, trailing or repeated whitespace, and cleaning it again changes
\* nothing.
C22_LabelsFullyCleaned ==
    pc = "extracted" =>
        /\ \A i \in 1..Len(assets) : IsCleanLabel(assets[i].label)
        /\ \A i \in 1..Len(groups) : IsCleanLabel(groups[i].label)

\* The group-styled containers of the diagram.
GroupContainers(doc) ==
    SelectSeq(MxCells(doc), LAMBDA c : Contains(c.style, <<"g","r","o","u","p">>) /\ c.vertex)

\* The labeled objects directly in the container id, in document order, and
\* those of them that are fact sheets.
LabeledChildren(doc, id) ==
    SelectSeq(doc, LAMBDA e : e.tag = "object" /\ e.cell /\ e.parent = id /\ e.label # <<>>)

LabeledFactSheetChildren(doc, id) ==
    SelectSeq(LabeledChildren(doc, id), LAMBDA e : e.type = "factSheet")

\* C23 as stated: a container yields a Group labelled with the cleaned
\* label of its first labeled direct child object, and none without one.
C23_GroupFromFirstLabeledChild_AsStated ==
    pc = "extracted" =>
        \A i \in 1..Len(GroupContainers(xml)) :
            LET id == GroupContainers(xml)[i].id
                kids == LabeledChildren(xml, id)
            IN  IF kids = <<>> THEN ~HasId(groups, id)
                ELSE HasId(groups, id) /\ Lookup(groups, id).label = clean_label(kids[1].label)

\* C23: a container yields a Group labelled with the cleaned label of its
\* first direct child object that has a label and is a fact sheet; a
\* container with no such child yields no Group, and nothing else does.
C23_GroupFromFirstLabeledFactSheet ==
    pc = "extracted" =>
        /\ \A i \in 1..Len(GroupContainers(xml)) :
              LET id == GroupContainers(xml)[i].id
                  kids == LabeledFactSheetChildren(xml, id)
              IN  IF kids = <<>> THEN ~HasId(groups, id)
                  ELSE HasId(groups, id) /\ Lookup(groups, id).label = clean_label(kids[1].label)
        /\ \A j \in 1..Len(groups) :
              \E i \in 1..Len(GroupContainers(xml)) : GroupContainers(xml)[i].id = groups[j].id

\* A container whose first labeled child is no fact sheet and whose second is.
C23_Witness ==
    /\ pc = "extracted"
    /\ \E i \in 1..Len(GroupContainers(xml)) :
          LET id == GroupContainers(xml)[i].id
          IN  /\ LabeledChildren(xml, id) # <<>>
              /\ LabeledChildren(xml, id)[1].type # "factSheet"
              /\ HasId(groups, id)

RECURSIVE ContainerChain(_, _, _)
\* The ids of the cells above the cell id, nearest first: its parent, the
\* parent of its parent, and so on, at most n of them.
ContainerChain(doc, id, n) ==
    IF n = 0 \/ id = <<>> \/ ~HasId(doc, id) THEN <<>>
    ELSE LET parent == Lookup(doc, id).parent
         IN  IF parent = <<>> THEN <<>> ELSE <<parent>> \o ContainerChain(doc, parent, n - 1)

\* The Groups in the container chain of the entity, nearest first.
GroupsAbove(doc, gs, id) ==
    SelectSeq(ContainerChain(doc, id, Len(doc)), LAMBDA c : HasId(gs, c))

\* C24: an entity is assigned to the nearest Group of its container chain,
\* also when its direct parent is not a group container, and is left
\* ungrouped only when no cell of its chain is a Group.
C24_GroupResolvedThroughContainerChain ==
    pc = "extracted" =>
        \A i \in 1..Len(assets) :
            LET above == GroupsAbove(xml, groups, assets[i].id)
            IN  IF above = <<>> THEN ~assets[i].grouped
                ELSE /\ assets[i].grouped
                     /\ assets[i].parent_group = Lookup(groups, above[1]).label

\* The section with the key key, for a key the composed sections have.
HasSection(key) == \E i \in 1..Len(sections) : sections[i].key = key

SectionContent(key) == sections[CHOOSE i \in 1..Len(sections) : sections[i].key = key].content

\* The relationship touches the Group group_name: its source or its target
\* entity belongs to the Group.
Touches(rel, group_name) ==
    \E i \in 1..Len(assets) :
        /\ assets[i].id \in {rel.source_id, rel.target_id}
        /\ GroupOf(assets[i]) = group_name

\* The line of a relationship: source, cardinality phrase, target.
RelationshipLine(rel) ==
    <<"- **">> \o SourceOf(rel) \o <<"** ">> \o describe_cardinality(rel.cardinality)
    \o <<" **">> \o TargetOf(rel) \o <<"**\n">>

\* C25: the section of a Group holds the line "source cardinality-phrase
\* target" of every relationship whose source or target entity belongs to
\* the Group.
C25_GroupSectionHoldsTouchingRelationships ==
    (pc = "extracted" /\ composed > 0) =>
        \A g \in {DomainNames(assets)[i] : i \in 1..Len(DomainNames(assets))} :
            /\ HasSection(sanitize_section_key(g))
            /\ \A j \in 1..Len(relationships) :
                  Touches(relationships[j], g) =>
                      Contains(SectionContent(sanitize_section_key(g)),
                               RelationshipLine(relationships[j]))

\* The content is the section of the Group group_name: it starts with the
\* heading of that Group.
IsSectionOf(content, group_name) ==
    /\ Len(content) >= Len(group_name) + 2
    /\ content[1] = "# "
    /\ SubSeq(content, 2, Len(group_name) + 1) = group_name
    /\ content[Len(group_name) + 2] = " Domain <em-dash> FA Enterprise Conceptual Data Model\n\n"

\* The member bullets of a section, in the order listed: the text between
\* "- **" and the "**\n" that closes it; a relationship line closes its
\* first name with "** ".
MemberBullets(content) ==
    LET closes(i) == {j \in (i + 1)..Len(content) : content[j] \in {"**\n", "** "}}
        close(i) == CHOOSE j \in closes(i) : \A k \in closes(i) : j <= k
        opens == SelectSeq([i \in 1..Len(content) |-> i],
                           LAMBDA i : /\ content[i] = "- **"
                                      /\ closes(i) # {}
                                      /\ content[close(i)] = "**\n")
    IN  [k \in 1..Len(opens) |-> SubSeq(content, opens[k] + 1, close(opens[k]) - 1)]

\* The member count the description of a section states.
StatedCount(content) ==
    content[1 + CHOOSE i \in 1..Len(content) :
                content[i] = " domain is part of the FA Enterprise Conceptual Data Model. It contains "]

\* C26: in the section of a Group the stated member count is the number of
\* member bullets, the bullets are in label-sorted order, and no bullet is
\* the label of the Group itself.
C26_MemberCountAndOrder ==
    (pc = "extracted" /\ composed > 0) =>
        \A i \in 1..Len(sections) :
            \A g \in {DomainNames(assets)[k] : k \in 1..Len(DomainNames(assets))} :
                IsSectionOf(sections[i].content, g) =>
                    LET bullets == MemberBullets(sections[i].content)
                    IN  /\ StatedCount(sections[i].content) = ToString(Len(bullets))
                        /\ \A a, b \in 1..Len(bullets) : a < b => ~StrLess(bullets[b], bullets[a])
                        /\ \A a \in 1..Len(bullets) : bullets[a] # g
                        /\ Len(bullets) =
                              Cardinality({k \in 1..Len(assets) :
                                              GroupOf(assets[k]) = g /\ UpperStr(assets[k].label) # UpperStr(g)})

\* The section of a Group with its own entity and three members that the
\* diagram gives in another order than the section.
C26_Witness ==
    /\ pc = "extracted"
    /\ composed > 0
    /\ \E i \in 1..Len(sections) :
          /\ IsSectionOf(sections[i].content, S_PARTY)
          /\ Len(MemberBullets(sections[i].content)) = 3
          /\ \E k \in 1..Len(assets) : assets[k].label = S_PARTY /\ GroupOf(assets[k]) = S_PARTY

\* The keys of the three sections that belong to no Group.
ReservedKeys ==
    { <<"o","v","e","r","v","i","e","w">>,
      <<"a","d","d","i","t","i","o","n","a","l","_","e","n","t","i","t","i","e","s">>,
      <<"r","e","l","a","t","i","o","n","s","h","i","p","s">> }

\* The composed sections that are the section of a Group, in section order.
DomainSections ==
    SelectSeq(sections, LAMBDA s : \E k \in 1..Len(DomainNames(assets)) :
                                       IsSectionOf(s.content, DomainNames(assets)[k]))

\* The Groups that have entities.
GroupsWithEntities == {i \in 1..Len(groups) : \E k \in 1..Len(assets) : assets[k].parent_id = groups[i].id}

\* C27: the composer renders one section per Group, in label-sorted order:
\* no two Groups share a section key, no section of a Group has the key of
\* the overview, additional-entities or relationships section, and there
\* are as many domain sections as Groups with entities.
C27_OneSectionPerGroup ==
    (pc = "extracted" /\ composed > 0) =>
        LET doms == DomainNames(assets)
        IN  /\ \A a, b \in 1..Len(doms) :
                  a # b => sanitize_section_key(doms[a]) # sanitize_section_key(doms[b])
            /\ \A a \in 1..Len(doms) : sanitize_section_key(doms[a]) \notin ReservedKeys
            /\ [a \in 1..Len(DomainSections) |-> DomainSections[a].key]
                   = [a \in 1..Len(doms) |-> sanitize_section_key(doms[a])]
            /\ Len(DomainSections) = Cardinality(GroupsWithEntities)

\* ---------------------------------------------------------------------
\* Pattern B of _extract_page_range, line by line
\* ---------------------------------------------------------------------

MaxDashLines == 4

\* Lines of all_lines: two lines that open a term, a continuation, and two
\* lines with a dash that open none (one space before the dash; a lower-case
\* first letter).
D_Ball == <<"B","a","l","l"," "," ","-"," ","a"," ","r","o","u","n","d"," ","t","h","i","n","g">>
D_Single == <<"C","u","p"," ","-"," ","a"," ","t","r","o","p","h","y">>
D_Lower == <<"t","e","a","m"," "," ","-"," ","l","o","w","e","r">>
DashPool == {G_Team, D_Ball, G_Cont, D_Single, D_Lower}

\* current_defn.append(ln)
Accumulate_Dropped(defn, ln) == defn

Accumulate(defn, ln) == Append(defn, ln)

\* _collect(store, current_term, " ".join(current_defn)), as the call made.
Flush(collects, term, defn) ==
    IF term # <<>> THEN Append(collects, [term |-> term, defn |-> Join(defn, <<" ">>)])
    ELSE collects

\* One iteration of "for ln in all_lines".
DashLine ==
    /\ pc = "dash"
    /\ line_idx < Len(all_lines)
    /\ LET ln == all_lines[line_idx + 1]
           m == DashMatch(ln)
       IN  IF m.ok
           THEN /\ dash_collects' = Flush(dash_collects, dash_term, dash_defn)
                /\ dash_term' = Strip(m.g1)
                /\ dash_defn' = <<Strip(m.g2)>>
           ELSE IF dash_term # <<>> /\ ln # <<>>
           THEN /\ dash_defn' = Accumulate(dash_defn, ln)
                /\ UNCHANGED <<dash_term, dash_collects>>
           ELSE UNCHANGED <<dash_term, dash_defn, dash_collects>>
    /\ line_idx' = line_idx + 1
    /\ UNCHANGED <<pc, stripVars, glossVars, graphVars, batchVars, ingestVars, all_lines>>

\* The end of the loop: "if current_term: _collect(...)".
DashEnd ==
    /\ pc = "dash"
    /\ line_idx = Len(all_lines)
    /\ dash_collects' = Flush(dash_collects, dash_term, dash_defn)
    /\ pc' = "dash_done"
    /\ UNCHANGED <<stripVars, glossVars, graphVars, batchVars, ingestVars, all_lines, line_idx, dash_term,
                   dash_defn>>

DashInit ==
    /\ pc = "dash"
    /\ pages = <<>>
    /\ current_section = <<>>
    /\ clean_sections = <<>>
    /\ def_sections = <<>>
    /\ def_density_threshold = DefaultDensityThreshold
    /\ section_idx = 0
    /\ explicit_store = <<>>
    /\ detected_store = <<>>
    /\ merged = <<>>
    /\ GraphIdle
    /\ BatchIdle
    /\ all_lines \in SeqsUpTo(DashPool, MaxDashLines)
    /\ line_idx = 0
    /\ dash_term = <<>>
    /\ dash_defn = <<>>
    /\ dash_collects = <<>>
    /\ IngestIdle

DashNext == DashLine \/ DashEnd

SpecDash == DashInit /\ [][DashNext]_vars

\* The positions among the first k lines that open a term.
Openers(k) == SelectSeq([i \in 1..k |-> i], LAMBDA i : DashMatch(all_lines[i]).ok)

\* The term a line opens, and the definition it has once the lines up to
\* position last are appended to it.
OpenedTerm(i) == Strip(DashMatch(all_lines[i]).g1)

OpenedParts(i, last) == <<Strip(DashMatch(all_lines[i]).g2)>> \o SubSeq(all_lines, i + 1, last)

\* C28: Pattern B is Idle until a line opens a term and Accumulating from
\* then on: a line of the form "<Term><two or more spaces>- <rest>" opens a
\* term, the lines after it that open none are appended in order, and each
\* opened term is handed to _collect exactly once, when the next term
\* opens or at the end of the range; lines before the first opening line
\* are never collected.
C28_PatternBStateMachine ==
    pc \in {"dash", "dash_done"} =>
        LET os == Openers(line_idx)
            closed == IF pc = "dash_done" THEN Len(os) ELSE Len(os) - 1
        IN  /\ (dash_term = <<>>) <=> (os = <<>>)
            /\ os # <<>> =>
                  /\ dash_term = OpenedTerm(os[Len(os)])
                  /\ dash_defn = OpenedParts(os[Len(os)], line_idx)
            /\ Len(dash_collects) = (IF closed < 0 THEN 0 ELSE closed)
            /\ \A k \in 1..Len(dash_collects) :
                  /\ dash_collects[k].term = OpenedTerm(os[k])
                  /\ dash_collects[k].defn =
                        Join(OpenedParts(os[k], IF k < Len(os) THEN os[k + 1] - 1 ELSE line_idx),
                             <<" ">>)

\* A finished loop over a line before the first term, a term with a
\* continuation line, and a second term.
C28_Witness ==
    /\ pc = "dash_done"
    /\ Len(dash_collects) = 2
    /\ Len(all_lines) = 4
    /\ ~DashMatch(all_lines[1]).ok
    /\ ~DashMatch(all_lines[3]).ok

\* ---------------------------------------------------------------------
\* run_ingestion: file hashes, loading and indexing over several runs
\* ---------------------------------------------------------------------

MaxVersion == 2

\* ingest_config.file_paths, each a file by name.
Files == {"a.pdf", "b.pdf"}

\* Where a configured file can be: at the configured path, under
\* RAG_DOCS_DIR only, or at neither place.
Locations == {"configured", "override", "missing"}

\* The paths of a file: Path(file_path).expanduser() and
\* Path(env_dir).expanduser() / Path(file_path).name.
ConfiguredPath(f) == <<f, "configured">>

OverridePath(f) == <<f, "override">>

Paths == {ConfiguredPath(f) : f \in Files} \cup {OverridePath(f) : f \in Files}

\* path.exists()
Exists(path) == file_at[path[1]] = path[2]

\* The path load_documents resolves a configured file to, when it finds it.
Found(f) == file_at[f] # "missing"

ResolvedPath(f) == IF file_at[f] = "override" THEN OverridePath(f) ELSE ConfiguredPath(f)

\* compute_file_hash(path): the content of the file, 0 when it cannot be read.
compute_file_hash(path) == IF Exists(path) THEN version[path[1]] ELSE 0

\* get_stored_hash(client, path, collection_name); 0 is None.
get_stored_hash(hashes, path) == hashes[path]

\* is_file_changed(client, path, collection_name)
is_file_changed(hashes, path) ==
    \/ compute_file_hash(path) = 0
    \/ get_stored_hash(hashes, path) = 0
    \/ compute_file_hash(path) # get_stored_hash(hashes, path)

\* The ids remove_file_hashes(client, file_paths, collection_name) deletes.
RemovedIds(file_paths) == {ConfiguredPath(f) : f \in file_paths}

remove_file_hashes(hashes, file_paths) ==
    [p \in Paths |-> IF p \in RemovedIds(file_paths) THEN 0 ELSE hashes[p]]

\* store_file_hash(client, path, collection_name) for every path of a set.
store_file_hashes(hashes, paths) ==
    [p \in Paths |-> IF p \in paths THEN compute_file_hash(p) ELSE hashes[p]]

\* The content of a configured file is edited between two runs.
EditFile ==
    /\ pc = "ingest_ready"
    /\ \E f \in Files :
          /\ version[f] < MaxVersion
          /\ version' = [version EXCEPT ![f] = @ + 1]
    /\ UNCHANGED <<pc, stripVars, glossVars, graphVars, batchVars, dashVars, file_at, file_hashes,
                   indexed, rebuild, force, files_to_process, skipped, documents, outcome>>

\* run_ingestion up to the call of load_documents: with rebuild set the
\* hashes of ingest_config.file_paths are removed.
StartRun ==
    /\ pc = "ingest_ready"
    /\ \E r \in BOOLEAN, fo \in BOOLEAN :
          /\ rebuild' = r
          /\ force' = fo
          /\ file_hashes' = IF r THEN remove_file_hashes(file_hashes, Files) ELSE file_hashes
    /\ files_to_process' = {}
    /\ skipped' = {}
    /\ documents' = {}
    /\ outcome' = "running"
    /\ pc' = "loading"
    /\ UNCHANGED <<stripVars, glossVars, graphVars, batchVars, dashVars, file_at, version, indexed>>

\* files_to_process of load_documents: every configured path with force,
\* else the resolved paths of the found files that is_file_changed reports.
FilesToProcess(hashes) ==
    IF force THEN {ConfiguredPath(f) : f \in Files}
    ELSE {ResolvedPath(f) : f \in {g \in Files : Found(g) /\ is_file_changed(hashes, ResolvedPath(g))}}

\* The files logged as "Skipping unchanged file".
Unchanged(hashes) ==
    IF force THEN {}
    ELSE {f \in Files : Found(f) /\ ~is_file_changed(hashes, ResolvedPath(f))}

\* load_documents: the reader fails on the paths of unreadable and on the
\* paths that do not exist; a hash is stored for every path it loads.
LoadDocuments ==
    /\ pc = "loading"
    /\ \E unreadable \in SUBSET Files :
          LET loaded == {p \in FilesToProcess(file_hashes) : Exists(p) /\ p[1] \notin unreadable}
          IN  /\ files_to_process' = FilesToProcess(file_hashes)
              /\ skipped' = Unchanged(file_hashes)
              /\ documents' = {<<p[1], version[p[1]]>> : p \in loaded}
              /\ file_hashes' = store_file_hashes(file_hashes, loaded)
    /\ pc' = "loaded"
    /\ UNCHANGED <<stripVars, glossVars, graphVars, batchVars, dashVars, file_at, version, indexed,
                   rebuild, force, outcome>>

\* run_ingestion after load_documents: the existing index is returned, or
\* ValueError is raised, or build_index runs and returns or raises.
FinishRun ==
    /\ pc = "loaded"
    /\ IF documents = {} /\ ~rebuild
       THEN /\ outcome' = "no_changes"
            /\ UNCHANGED indexed
       ELSE IF documents = {}
       THEN /\ outcome' = "ValueError"
            /\ UNCHANGED indexed
       ELSE \E built \in BOOLEAN :
               IF built
               THEN /\ indexed' = indexed \cup documents
                    /\ outcome' = "indexed"
               ELSE /\ outcome' = "build_failed"
                    /\ UNCHANGED indexed
    /\ pc' = "ingest_ready"
    /\ UNCHANGED <<stripVars, glossVars, graphVars, batchVars, dashVars, file_at, version,
                   file_hashes, rebuild, force, files_to_process, skipped, documents>>

IngestInit ==
    /\ pc = "ingest_ready"
    /\ pages = <<>>
    /\ current_section = <<>>
    /\ clean_sections = <<>>
    /\ def_sections = <<>>
    /\ def_density_threshold = DefaultDensityThreshold
    /\ section_idx = 0
    /\ explicit_store = <<>>
    /\ detected_store = <<>>
    /\ merged = <<>>
    /\ GraphIdle
    /\ BatchIdle
    /\ DashIdle
    /\ file_at \in [Files -> Locations]
    /\ version = [f \in Files |-> 1]
    /\ file_hashes = [p \in Paths |-> 0]
    /\ indexed = {}
    /\ rebuild = FALSE
    /\ force = FALSE
    /\ files_to_process = {}
    /\ skipped = {}
    /\ documents = {}
    /\ outcome = "none"

IngestNext == EditFile \/ StartRun \/ LoadDocuments \/ FinishRun

SpecIngest == IngestInit /\ [][IngestNext]_vars

\* C29: a run with rebuild=True clears the recorded hashes of all configured
\* files before loading, so every configured file that can be found, at
\* its configured path or through the RAG_DOCS_DIR override, is loaded
\* again and none is skipped as unchanged, whatever earlier runs recorded.
C29_RebuildReloadsEveryFoundFile ==
    /\ (pc = "loading" /\ rebuild) => \A p \in Paths : file_hashes[p] = 0
    /\ (pc = "loaded" /\ rebuild) =>
          /\ skipped = {}
          /\ \A f \in Files : Found(f) => ResolvedPath(f) \in files_to_process

\* C30: across any sequence of runs a file is skipped as unchanged only if
\* its current content was indexed by an earlier run, and between runs no
\* hash is recorded for content that no run has indexed.
C30_SkippedOnlyIfIndexed ==
    /\ pc = "loaded" => \A f \in skipped : <<f, version[f]>> \in indexed
    /\ pc = "ingest_ready" =>
          \A p \in Paths : file_hashes[p] # 0 => <<p[1], file_hashes[p]>> \in indexed

====
